---- MODULE Spec2Model ----
(***************************************************************************)
(* Verification model of the grbl-style CNC core: the supervisor state     *)
(* machine (src/src/system_state.c), the G-code parser and executor        *)
(* (src/src/gcode.c, first half), the stepper engine (src/src/gcode.c,     *)
(* second half) and the HAL outputs they drive.                            *)
(*                                                                         *)
(* Numbers are integers: coordinates, speeds and word values are drawn     *)
(* from small integer sets.  A G-code line is a sequence of words          *)
(* [l |-> letter, v |-> value]; the value "bad" stands for text on which   *)
(* strtol/strtof make no conversion.                                       *)
(***************************************************************************)
EXTENDS Integers, Sequences, FiniteSets, TLC

VARIABLES
    sys,    \* system_context_t: state, alarm, gcode, planner, flags, position, counters
    stp,    \* stepper_context_t: phase, config, block, counters, position, timing
    hal,    \* the HAL: clock, motor enable, direction pins, spindle, pulses emitted
    last,   \* the last call made: operation, argument, return value, state before it
    proto,  \* protocol_t: configuration, callbacks, line under assembly, line queue
    rx,     \* the framer's transport: bytes fed, callbacks made, lines popped
    main    \* the non-ISR caller of the stepper: call in progress and its position

vars == <<sys, stp, hal, last, proto, rx, main>>

(* ------------------------------ bounds -------------------------------- *)

\* process_line calls explored (caps total_lines_processed + total_errors)
MaxLines == 2
\* blocks an external producer may have pending in the supervisor's planner queue
MaxQueue == 1
\* step pulses explored per axis (caps the blocks loaded into the stepper)
MaxPulses == 3
\* 1 kHz ticks of the HAL clock explored
MaxTicks == 4
\* line capacity of the framer (96 in the build, scaled down)
PROTOCOL_LINE_MAX == 2
\* depth of the completed-line queue (8 in the build, scaled down)
PROTOCOL_LINE_QUEUE_DEPTH == 2
\* bytes fed to the framer in one behaviour
MaxBytes == 4
\* bytes fed to the framer in one behaviour of the queue specification
MaxQueueBytes == 6
\* timer interrupts taken during one call of the non-ISR context
MaxIsr == 2
\* largest coordinate the interpreter is driven to
MaxCoord == 30
\* clamp on the segments of one arc (10000 in the build, scaled down)
MaxSegments == 2

(* ----------------------------- constants ------------------------------ *)

\* number of stepper axes (X, Y, Z)
HAL_AXIS_MAX == 3

DEFAULT_STEP_INTERVAL_US == 1000

(* ------------------------------ domains ------------------------------- *)

SysStates == {"Idle", "Running", "Hold", "Jog", "Alarm", "Homing", "Check", "Sleep", "Door"}

SysAlarms == {"None", "HardLimit", "SoftLimit", "EStop", "ProbeFail", "HomingFail",
              "Overflow", "SpindleStall"}

\* hal_inputs_t as read by hal_read_inputs
HalInputs == [limit_x : BOOLEAN, limit_y : BOOLEAN, limit_z : BOOLEAN, estop : BOOLEAN]

NoInputs == [limit_x |-> FALSE, limit_y |-> FALSE, limit_z |-> FALSE, estop |-> FALSE]

(* --------------------------- G-code parser ---------------------------- *)

W(l, v) == [l |-> l, v |-> v, ok |-> TRUE]

\* a letter followed by text that is no number
Bad(l) == [l |-> l, v |-> 0, ok |-> FALSE]

\* memset(block, 0) followed by the NAN fill: no word present
EmptyBlock ==
    [has_g |-> FALSE, g_code |-> 0, has_m |-> FALSE, m_code |-> 0,
     has_x |-> FALSE, x |-> 0, has_y |-> FALSE, y |-> 0,
     has_i |-> FALSE, i |-> 0, has_j |-> FALSE, j |-> 0,
     has_r |-> FALSE, r |-> 0, has_f |-> FALSE, f |-> 0,
     has_s |-> FALSE, s |-> 0, has_p |-> FALSE, p |-> 0]

\* variant that keeps the first G-number and the first M-number of a line
parse_word_KeepFirst(block, w) ==
    CASE w.l = "G" -> IF block.has_g THEN block
                      ELSE [block EXCEPT !.g_code = w.v, !.has_g = TRUE]
      [] w.l = "M" -> IF block.has_m THEN block
                      ELSE [block EXCEPT !.m_code = w.v, !.has_m = TRUE]
      [] w.l = "X" -> [block EXCEPT !.x = w.v, !.has_x = TRUE]
      [] w.l = "Y" -> [block EXCEPT !.y = w.v, !.has_y = TRUE]
      [] w.l = "F" -> [block EXCEPT !.f = w.v, !.has_f = TRUE]
      [] w.l = "S" -> [block EXCEPT !.s = w.v, !.has_s = TRUE]
      [] w.l = "P" -> [block EXCEPT !.p = w.v, !.has_p = TRUE]
      [] w.l = "I" -> [block EXCEPT !.i = w.v, !.has_i = TRUE]
      [] w.l = "J" -> [block EXCEPT !.j = w.v, !.has_j = TRUE]
      [] w.l = "R" -> [block EXCEPT !.r = w.v, !.has_r = TRUE]
      [] OTHER -> block

\* one iteration of the word loop: the switch on the letter
parse_word(block, w) ==
    CASE w.l = "G" -> [block EXCEPT !.g_code = w.v, !.has_g = TRUE]
      [] w.l = "M" -> [block EXCEPT !.m_code = w.v, !.has_m = TRUE]
      [] w.l = "X" -> [block EXCEPT !.x = w.v, !.has_x = TRUE]
      [] w.l = "Y" -> [block EXCEPT !.y = w.v, !.has_y = TRUE]
      [] w.l = "F" -> [block EXCEPT !.f = w.v, !.has_f = TRUE]
      [] w.l = "S" -> [block EXCEPT !.s = w.v, !.has_s = TRUE]
      [] w.l = "P" -> [block EXCEPT !.p = w.v, !.has_p = TRUE]
      [] w.l = "I" -> [block EXCEPT !.i = w.v, !.has_i = TRUE]
      [] w.l = "J" -> [block EXCEPT !.j = w.v, !.has_j = TRUE]
      [] w.l = "R" -> [block EXCEPT !.r = w.v, !.has_r = TRUE]
      [] OTHER -> block

ParsedLetters == {"G", "M", "X", "Y", "F", "S", "P", "I", "J", "R"}

RECURSIVE parse_words(_, _)
parse_words(words, block) ==
    IF words = << >> THEN [status |-> "OK", block |-> block]
    ELSE LET w == Head(words) IN
         IF w.l \in ParsedLetters /\ ~w.ok
         THEN [status |-> "InvalidParam", block |-> block]
         ELSE parse_words(Tail(words), parse_word(block, w))

gcode_parse_line(line) == parse_words(line, EmptyBlock)

(* -------------------------- G-code executor --------------------------- *)

\* gcode_init: the modal state after construction
gcode_init ==
    [position_x |-> 0, position_y |-> 0,
     motion_mode |-> "Linear", coord_mode |-> "Absolute",
     feed_mode |-> "UnitsPerMin", spindle_state |-> "Off",
     feedrate |-> 100, spindle_speed |-> 0,
     feedrate_set |-> FALSE, absolute_mode |-> TRUE, program_complete |-> FALSE]

gcode_reset == gcode_init

St(status, gc) == [status |-> status, gc |-> gc]

\* variant that reads the X word as absolute in either mode
target_x_AlwaysAbsolute(gc, block) ==
    IF block.has_x THEN block.x ELSE gc.position_x

\* target of a motion block in the current coordinate mode
target_x(gc, block) ==
    IF gc.absolute_mode THEN (IF block.has_x THEN block.x ELSE gc.position_x)
    ELSE (IF block.has_x THEN gc.position_x + block.x ELSE gc.position_x)

target_y(gc, block) ==
    IF gc.absolute_mode THEN (IF block.has_y THEN block.y ELSE gc.position_y)
    ELSE (IF block.has_y THEN gc.position_y + block.y ELSE gc.position_y)

\* the F word of a motion block: feedrate and feedrate_set
apply_feed(gc, block) ==
    IF block.has_f THEN [gc EXCEPT !.feedrate = block.f, !.feedrate_set = TRUE] ELSE gc

\* variant in which a linear move does not need a feedrate
execute_motion_FeedOptional(gc, block) ==
    IF block.has_f /\ block.f <= 0 THEN St("InvalidParam", gc)
    ELSE LET g1 == apply_feed(gc, block) IN
         St("OK", [g1 EXCEPT !.position_x = target_x(g1, block),
                             !.position_y = target_y(g1, block)])

execute_motion(gc, block) ==
    IF block.has_f /\ block.f <= 0 THEN St("InvalidParam", gc)
    ELSE LET g1 == apply_feed(gc, block) IN
         IF g1.motion_mode = "Linear" /\ ~g1.feedrate_set THEN St("MissingParam", g1)
         ELSE St("OK", [g1 EXCEPT !.position_x = target_x(g1, block),
                                  !.position_y = target_y(g1, block)])

execute_dwell(gc, block) ==
    IF ~block.has_p THEN St("MissingParam", gc)
    ELSE IF block.p < 0 THEN St("InvalidParam", gc)
    ELSE St("OK", gc)

\* arc_generate_ij on integer coordinates: the working radius is below
\* ARC_RADIUS_MIN_MM only when centre, start and end coincide
arc_generate_ij_ok(sx, sy, ex, ey, i_off, j_off) ==
    ~(i_off = 0 /\ j_off = 0 /\ ex = sx /\ ey = sy)

\* arc_generate_r on integer coordinates: radius 0, chord longer than the
\* diameter and a zero-length chord are rejected
arc_generate_r_ok(sx, sy, ex, ey, r) ==
    LET dx == ex - sx
        dy == ey - sy
    IN r # 0 /\ dx * dx + dy * dy <= 4 * r * r /\ ~(dx = 0 /\ dy = 0)

execute_arc(gc, block) ==
    IF block.has_f /\ block.f <= 0 THEN St("InvalidParam", gc)
    ELSE LET g1 == apply_feed(gc, block)
             tx == target_x(g1, block)
             ty == target_y(g1, block)
             \* the last arc_segment_handler call receives the end point
             done == [g1 EXCEPT !.position_x = tx, !.position_y = ty]
         IN
         IF ~g1.feedrate_set THEN St("MissingParam", g1)
         ELSE IF block.has_r THEN
              (IF arc_generate_r_ok(g1.position_x, g1.position_y, tx, ty, block.r)
               THEN St("OK", done) ELSE St("InvalidTarget", g1))
         ELSE IF block.has_i \/ block.has_j THEN
              (IF arc_generate_ij_ok(g1.position_x, g1.position_y, tx, ty,
                                     IF block.has_i THEN block.i ELSE 0,
                                     IF block.has_j THEN block.j ELSE 0)
               THEN St("OK", done) ELSE St("InvalidTarget", g1))
         ELSE St("MissingParam", g1)

\* the clamps on num_segments
clamp_segments(raw) ==
    IF raw < 1 THEN 1 ELSE IF raw > MaxSegments THEN MaxSegments ELSE raw

\* variant whose last segment is a computed point like the others
arc_segments_NoSnap(ex, ey, raw, mids) ==
    [k \in 1..clamp_segments(raw) |-> IF k = MaxSegments THEN mids[1] ELSE mids[k]]

\* the segment loop of arc_generate_ij: the points handed to the callback.
\* raw is (int)(arc_length / ARC_SEGMENT_LEN_MM) and mids[k] the k-th point
\* computed with cosf/sinf; the last segment snaps to the end point
arc_segments(ex, ey, raw, mids) ==
    LET num_segments == clamp_segments(raw) IN
    [k \in 1..num_segments |-> IF k = num_segments THEN <<ex, ey>> ELSE mids[k]]

\* arc_generate_ij with a callback that always returns true
arc_generate_ij(sx, sy, ex, ey, i_off, j_off, raw, mids) ==
    IF ~arc_generate_ij_ok(sx, sy, ex, ey, i_off, j_off)
    THEN [ret |-> FALSE, calls |-> << >>]
    ELSE [ret |-> TRUE, calls |-> arc_segments(ex, ey, raw, mids)]

\* arc_generate_r: the checks, then arc_generate_ij about the computed centre
\* (whose radius is |r|)
arc_generate_r(sx, sy, ex, ey, r, raw, mids) ==
    IF ~arc_generate_r_ok(sx, sy, ex, ey, r)
    THEN [ret |-> FALSE, calls |-> << >>]
    ELSE [ret |-> TRUE, calls |-> arc_segments(ex, ey, raw, mids)]

\* arc_segment_handler applied to the points in turn
RECURSIVE arc_segment_handler(_, _)
arc_segment_handler(gc, calls) ==
    IF calls = << >> THEN gc
    ELSE arc_segment_handler([gc EXCEPT !.position_x = Head(calls)[1],
                                        !.position_y = Head(calls)[2]], Tail(calls))

\* execute_arc with the segments spelled out; arc is what the generator did
execute_arc_segments(gc, block, raw, mids) ==
    LET none == [ret |-> FALSE, calls |-> << >>]
        R(status, g, arc) == [status |-> status, gc |-> g, arc |-> arc]
    IN
    IF block.has_f /\ block.f <= 0 THEN R("InvalidParam", gc, none)
    ELSE LET g1 == apply_feed(gc, block)
             tx == target_x(g1, block)
             ty == target_y(g1, block)
             arc == IF block.has_r
                    THEN arc_generate_r(g1.position_x, g1.position_y, tx, ty,
                                        block.r, raw, mids)
                    ELSE arc_generate_ij(g1.position_x, g1.position_y, tx, ty,
                                         IF block.has_i THEN block.i ELSE 0,
                                         IF block.has_j THEN block.j ELSE 0, raw, mids)
         IN
         IF ~g1.feedrate_set THEN R("MissingParam", g1, none)
         ELSE IF ~(block.has_r \/ block.has_i \/ block.has_j)
              THEN R("MissingParam", g1, none)
         ELSE IF ~arc.ret THEN R("InvalidTarget", g1, arc)
         ELSE R("OK", arc_segment_handler(g1, arc.calls), arc)

execute_program_end(gc, m_code) ==
    LET g1 == [gc EXCEPT !.spindle_state = "Off", !.program_complete = TRUE] IN
    St("OK", IF m_code = 30 THEN [g1 EXCEPT !.position_x = 0, !.position_y = 0] ELSE g1)

execute_spindle(gc, m_code, block) ==
    LET speed(g) == IF block.has_s THEN [g EXCEPT !.spindle_speed = block.s] ELSE g IN
    CASE m_code = 3 -> St("OK", speed([gc EXCEPT !.spindle_state = "CW"]))
      [] m_code = 4 -> St("OK", speed([gc EXCEPT !.spindle_state = "CCW"]))
      [] m_code = 5 -> St("OK", [gc EXCEPT !.spindle_state = "Off"])
      [] OTHER -> St("UnknownCmd", gc)

\* the G-word switch of gcode_execute_block
execute_g(gc, block) ==
    CASE block.g_code = 0 -> execute_motion([gc EXCEPT !.motion_mode = "Rapid"], block)
      [] block.g_code = 1 -> execute_motion([gc EXCEPT !.motion_mode = "Linear"], block)
      [] block.g_code = 2 -> execute_arc([gc EXCEPT !.motion_mode = "ArcCW"], block)
      [] block.g_code = 3 -> execute_arc([gc EXCEPT !.motion_mode = "ArcCCW"], block)
      [] block.g_code = 4 -> execute_dwell(gc, block)
      [] block.g_code = 90 ->
            St("OK", [gc EXCEPT !.coord_mode = "Absolute", !.absolute_mode = TRUE])
      [] block.g_code = 91 ->
            St("OK", [gc EXCEPT !.coord_mode = "Relative", !.absolute_mode = FALSE])
      [] block.g_code = 94 -> St("OK", [gc EXCEPT !.feed_mode = "UnitsPerMin"])
      [] block.g_code = 93 -> St("OK", [gc EXCEPT !.feed_mode = "InverseTime"])
      [] OTHER -> St("UnsupportedCmd", gc)

\* the M-word switch of gcode_execute_block
execute_m(gc, block) ==
    IF block.m_code \in {2, 30} THEN execute_program_end(gc, block.m_code)
    ELSE execute_spindle(gc, block.m_code, block)

\* variant that runs the M-word before the G-word
gcode_execute_block_MFirst(gc, block) ==
    LET rm == IF block.has_m THEN execute_m(gc, block) ELSE St("OK", gc) IN
    IF rm.status # "OK" THEN rm
    ELSE LET rg == IF block.has_g THEN execute_g(rm.gc, block) ELSE rm IN
         IF rg.status # "OK" THEN rg
         ELSE IF block.has_s /\ ~block.has_m
              THEN St("OK", [rg.gc EXCEPT !.spindle_speed = block.s])
              ELSE St("OK", rg.gc)

\* what gcode_execute_block does once the G-word has given rg: the M-word,
\* then the standalone S word
execute_m_s(rg, block) ==
    IF rg.status # "OK" THEN rg
    ELSE LET rm == IF block.has_m THEN execute_m(rg.gc, block) ELSE rg IN
         IF rm.status # "OK" THEN rm
         ELSE IF block.has_s /\ ~block.has_m
              THEN St("OK", [rm.gc EXCEPT !.spindle_speed = block.s])
              ELSE St("OK", rm.gc)

\* variant that lets coordinate words without a G-word move in the sticky
\* motion mode
gcode_execute_block_StickyMotion(gc, block) ==
    execute_m_s(IF block.has_g THEN execute_g(gc, block)
                ELSE IF block.has_x \/ block.has_y
                THEN execute_motion(gc, block)
                ELSE St("OK", gc), block)

gcode_execute_block(gc, block) ==
    execute_m_s(IF block.has_g THEN execute_g(gc, block) ELSE St("OK", gc), block)

gcode_process_line(gc, line) ==
    LET p == gcode_parse_line(line) IN
    IF p.status # "OK" THEN St(p.status, gc)
    ELSE gcode_execute_block(gc, p.block)

(* ------------------------------ planner ------------------------------- *)

\* planner_queue_init: an empty queue
planner_queue_init == << >>

\* planner_queue_clear: drops every pending block
planner_queue_clear(q) == << >>

\* the float that is not a number, kept apart from every value used as a number
NaN == 0 - 1000000

\* the float comparisons a < b and a > b: false as soon as one side is NaN
FLess(a, b) == a # NaN /\ b # NaN /\ a < b

FGreater(a, b) == FLess(b, a)

planner_block_validate(block) ==
    /\ ~FLess(block.entry_speed, 0)
    /\ ~FLess(block.nominal_speed, 0)
    /\ ~FLess(block.exit_speed, 0)
    /\ ~FLess(block.acceleration, 0)
    /\ ~FLess(block.max_entry_speed, 0)
    /\ ~FLess(block.millimeters, 0)
    /\ ~(FGreater(block.max_entry_speed, 0)
            /\ FGreater(block.entry_speed, block.max_entry_speed))
    /\ ~(FGreater(block.nominal_speed, 0)
            /\ FGreater(block.entry_speed, block.nominal_speed))
    /\ ~(FGreater(block.nominal_speed, 0)
            /\ FGreater(block.exit_speed, block.nominal_speed))

(* -------------------------------- HAL --------------------------------- *)

Axes == 0 .. (HAL_AXIS_MAX - 1)

HAL_AXIS_X == 0

\* unsigned timer arithmetic wraps; the timers are modelled 30 bits wide
\* (the model checker's integers are 32-bit signed)
U32(x) == x % 1073741824

hal_micros(h) == U32(h.time_us)

hal_millis(h) == U32(h.time_us \div 1000)

hal_delay_ms(h, ms) == [h EXCEPT !.time_us = @ + ms * 1000]

\* delay_us: rounds up to whole milliseconds of hal_delay_ms
delay_us(h, us) ==
    IF us = 0 THEN h ELSE hal_delay_ms(h, (us + 999) \div 1000)

\* bit `axis` of a direction mask
dir_bit(bits, axis) == (bits \div (2 ^ axis)) % 2 = 1

\* set_directions: one hal_stepper_set_dir per axis
set_directions(h, dir_bits) ==
    [h EXCEPT !.dir = [axis \in Axes |-> dir_bit(dir_bits, axis)]]

(* ------------------------------ stepper ------------------------------- *)

SOut(ret, c, h) == [ret |-> ret, stp |-> c, hal |-> h]

ZeroAxes == [axis \in Axes |-> 0]

\* the configuration stepper_init installs when none is given
DefaultConfig ==
    [step_pulse_us |-> 10, step_idle_delay_us |-> 100, dir_setup_us |-> 5,
     motors_enabled |-> FALSE, idle_disable |-> TRUE, idle_timeout_ms |-> 30000]

\* the context after stepper_init; current_block is << >> for NULL
stepper_init_ctx(config) ==
    [state |-> "Idle", config |-> config, current_block |-> << >>,
     step_count |-> ZeroAxes, target_steps |-> ZeroAxes, position |-> ZeroAxes,
     last_step_time_us |-> 0, step_interval_us |-> 0, current_speed |-> 0,
     idle_start_time_ms |-> 0]

stepper_init(h, config) ==
    SOut(TRUE, stepper_init_ctx(config), [h EXCEPT !.stepper_enable = FALSE])

\* block_to_steps: every step goes to the X axis
block_to_steps(block) ==
    [axis \in Axes |->
        IF axis = HAL_AXIS_X /\ block.step_event_count > 0
        THEN block.step_event_count ELSE 0]

\* initial step interval from the entry speed (mm/min, 1 step per mm)
step_interval(block) ==
    IF block.entry_speed > 0 THEN 60000000 \div block.entry_speed
    ELSE DEFAULT_STEP_INTERVAL_US

\* variant that also accepts a block while the stepper is held
stepper_load_block_FromHold(c, h, block) ==
    IF block = << >> \/ c.state \notin {"Idle", "Hold"} THEN SOut(FALSE, c, h)
    ELSE SOut(planner_block_validate(block[1]),
              [c EXCEPT !.current_block = block, !.step_count = ZeroAxes,
                        !.target_steps = block_to_steps(block[1]),
                        !.state = "Running"], h)

\* block: << >> for a NULL pointer, else <<b>>
stepper_load_block(c, h, block) ==
    IF block = << >> THEN SOut(FALSE, c, h)
    ELSE IF c.state # "Idle" THEN SOut(FALSE, c, h)
    ELSE IF ~planner_block_validate(block[1]) THEN SOut(FALSE, c, h)
    ELSE LET b == block[1]
             h1 == delay_us(set_directions(h, b.direction_bits), c.config.dir_setup_us)
             h2 == IF ~c.config.motors_enabled
                   THEN [h1 EXCEPT !.stepper_enable = TRUE] ELSE h1
         IN SOut(TRUE,
                 [c EXCEPT !.target_steps = block_to_steps(b),
                           !.current_block = block,
                           !.step_count = ZeroAxes,
                           !.step_interval_us = step_interval(b),
                           !.current_speed = b.entry_speed,
                           !.config.motors_enabled = TRUE,
                           !.state = "Running",
                           !.last_step_time_us = hal_micros(h2)],
                 h2)

\* variant that stops one step short of the target
steps_due_OneShort(c) == {axis \in Axes : c.step_count[axis] + 1 < c.target_steps[axis]}

\* the axes that still owe steps get a pulse on a due tick
steps_due(c) == {axis \in Axes : c.step_count[axis] < c.target_steps[axis]}

\* variant that counts every pulse upwards, whatever the direction bit
step_position_AlwaysUp(c, axis) == c.position[axis] + 1

\* joint position after one pulse on `axis`
step_position(c, axis) ==
    IF c.current_block # << >> /\ dir_bit(c.current_block[1].direction_bits, axis)
    THEN c.position[axis] + 1 ELSE c.position[axis] - 1

\* STEPPER_IDLE branch: motor disable after the idle timeout
update_idle(c, h) ==
    IF /\ c.config.idle_disable /\ c.config.motors_enabled
       /\ c.idle_start_time_ms > 0
       /\ U32(hal_millis(h) - c.idle_start_time_ms) >= c.config.idle_timeout_ms
    THEN SOut(TRUE, [c EXCEPT !.config.motors_enabled = FALSE],
                    [h EXCEPT !.stepper_enable = FALSE])
    ELSE SOut(TRUE, c, h)

\* variant that compares the clock difference without the 32-bit wraparound
update_running_NoWrap(c, h) ==
    LET now_us == hal_micros(h) IN
    IF now_us - c.last_step_time_us >= c.step_interval_us THEN
        LET due == steps_due(c)
            c1 == [c EXCEPT
                     !.step_count = [axis \in Axes |->
                                        IF axis \in due THEN @[axis] + 1 ELSE @[axis]],
                     !.position = [axis \in Axes |->
                                        IF axis \in due THEN step_position(c, axis)
                                        ELSE @[axis]],
                     !.last_step_time_us = now_us]
            h1 == delay_us([h EXCEPT !.pulses = [axis \in Axes |->
                                        IF axis \in due THEN @[axis] + 1 ELSE @[axis]]],
                           c.config.step_pulse_us)
        IN IF due = {}
           THEN SOut(TRUE, [c1 EXCEPT !.current_block = << >>, !.state = "Idle",
                                      !.current_speed = 0,
                                      !.idle_start_time_ms = hal_millis(h1)], h1)
           ELSE SOut(TRUE, c1, h1)
    ELSE SOut(TRUE, c, h)

\* STEPPER_RUNNING branch
update_running(c, h) ==
    LET now_us == hal_micros(h) IN
    IF U32(now_us - c.last_step_time_us) >= c.step_interval_us THEN
        LET due == steps_due(c)
            c1 == [c EXCEPT
                     !.step_count = [axis \in Axes |->
                                        IF axis \in due THEN @[axis] + 1 ELSE @[axis]],
                     !.position = [axis \in Axes |->
                                        IF axis \in due THEN step_position(c, axis)
                                        ELSE @[axis]],
                     !.last_step_time_us = now_us]
            h1 == delay_us([h EXCEPT !.pulses = [axis \in Axes |->
                                        IF axis \in due THEN @[axis] + 1 ELSE @[axis]]],
                           c.config.step_pulse_us)
        IN IF due = {}
           THEN SOut(TRUE, [c1 EXCEPT !.current_block = << >>, !.state = "Idle",
                                      !.current_speed = 0,
                                      !.idle_start_time_ms = hal_millis(h1)], h1)
           ELSE SOut(TRUE, c1, h1)
    ELSE SOut(TRUE, c, h)

\* STEPPER_STOPPING branch
update_stopping(c, h) ==
    SOut(TRUE, [c EXCEPT !.state = "Idle", !.current_block = << >>,
                         !.current_speed = 0, !.idle_start_time_ms = hal_millis(h)], h)

stepper_update(c, h) ==
    CASE c.state = "Idle" -> update_idle(c, h)
      [] c.state = "Running" -> update_running(c, h)
      [] c.state = "Hold" -> SOut(TRUE, c, h)
      [] c.state = "Stopping" -> update_stopping(c, h)

stepper_stop(c, h) == SOut(TRUE, [c EXCEPT !.state = "Stopping"], h)

stepper_enable_motors(c, h, enable) ==
    LET c1 == [c EXCEPT !.config.motors_enabled = enable]
        h1 == [h EXCEPT !.stepper_enable = enable]
    IN IF ~enable /\ c.state # "Idle" THEN stepper_stop(c1, h1) ELSE SOut(TRUE, c1, h1)

stepper_hold(c, h) ==
    SOut(TRUE, IF c.state = "Running" THEN [c EXCEPT !.state = "Hold"] ELSE c, h)

\* variant that resumes without restarting the step timer
stepper_resume_KeepTime(c, h) ==
    SOut(TRUE, IF c.state = "Hold" THEN [c EXCEPT !.state = "Running"] ELSE c, h)

stepper_resume(c, h) ==
    SOut(TRUE, IF c.state = "Hold"
               THEN [c EXCEPT !.state = "Running", !.last_step_time_us = hal_micros(h)]
               ELSE c, h)

stepper_reset(c, h) ==
    LET c1 == [c EXCEPT !.state = "Idle", !.current_block = << >>,
                        !.step_count = ZeroAxes, !.target_steps = ZeroAxes,
                        !.current_speed = 0]
    IN IF c.config.idle_disable
       THEN SOut(TRUE, [c1 EXCEPT !.config.motors_enabled = FALSE],
                       [h EXCEPT !.stepper_enable = FALSE])
       ELSE SOut(TRUE, c1, h)

\* stepper_set_config: the whole configuration is replaced, the HAL is not touched
stepper_set_config(c, h, config) == SOut(TRUE, [c EXCEPT !.config = config], h)

(* ------------------------------ protocol ------------------------------ *)

\* bytes the framer tests for
CtrlX == 24
Query == 63
Bang == 33
Tilde == 126
LF == 10
CR == 13
Tab == 9
Space == 32
Dollar == 36
LParen == 40
RParen == 41
Semicolon == 59
PrintableLo == 32
PrintableHi == 126
LowerA == 97
LowerZ == 122

is_printable_ascii(c) == c >= PrintableLo /\ c <= PrintableHi

to_upper(c) == IF c >= LowerA /\ c <= LowerZ THEN c - (LowerA - 65) ELSE c

QSlots == 0 .. (PROTOCOL_LINE_QUEUE_DEPTH - 1)

\* the protocol after protocol_init (memset to zero, then cfg and callbacks);
\* on_line / on_rt say whether a callback is registered; cur holds cur[0..cur_len-1];
\* seen is not a field of struct protocol: it counts the bytes that reached the
\* append step for the line under assembly
protocol_init(cfg, on_line, on_rt) ==
    [cfg |-> cfg, on_line |-> on_line, on_rt |-> on_rt,
     cur |-> << >>, cur_overflow |-> FALSE, in_paren_comment |-> FALSE,
     q |-> [k \in QSlots |-> << >>], qst |-> [k \in QSlots |-> "OK"],
     q_head |-> 0, q_tail |-> 0, q_count |-> 0,
     seen |-> 0]

\* variant that stores the line over the newest slot when the queue is full
queue_push_Overwrite(p, line, st) ==
    IF p.q_count >= PROTOCOL_LINE_QUEUE_DEPTH
    THEN LET k == (p.q_tail + PROTOCOL_LINE_QUEUE_DEPTH - 1) % PROTOCOL_LINE_QUEUE_DEPTH
         IN [p EXCEPT !.q[k] = line, !.qst[k] = st]
    ELSE [p EXCEPT !.q[p.q_tail] = line, !.qst[p.q_tail] = st,
                   !.q_tail = (p.q_tail + 1) % PROTOCOL_LINE_QUEUE_DEPTH,
                   !.q_count = @ + 1]

queue_push(p, line, st) ==
    IF p.q_count >= PROTOCOL_LINE_QUEUE_DEPTH THEN p
    ELSE [p EXCEPT !.q[p.q_tail] = line, !.qst[p.q_tail] = st,
                   !.q_tail = (p.q_tail + 1) % PROTOCOL_LINE_QUEUE_DEPTH,
                   !.q_count = @ + 1]

queue_pop(p) ==
    IF p.q_count = 0 THEN [ret |-> FALSE, p |-> p, line |-> << >>, st |-> "OK"]
    ELSE [ret |-> TRUE,
          p |-> [p EXCEPT !.q_head = (p.q_head + 1) % PROTOCOL_LINE_QUEUE_DEPTH,
                          !.q_count = @ - 1],
          line |-> p.q[p.q_head], st |-> p.qst[p.q_head]]

IsWs(c) == c = Space \/ c = Tab

RECURSIVE trim_left(_)
trim_left(s) == IF s # << >> /\ IsWs(Head(s)) THEN trim_left(Tail(s)) ELSE s

RECURSIVE trim_right(_)
trim_right(s) ==
    IF s # << >> /\ IsWs(s[Len(s)]) THEN trim_right(SubSeq(s, 1, Len(s) - 1)) ELSE s

trim_ws(s) == trim_right(trim_left(s))

\* what a feed step yields: the protocol and the callbacks it made
PO(p, out) == [p |-> p, out |-> out]

\* status and text emit_line settles on
line_status(p) ==
    IF p.cur_overflow THEN [st |-> "OVERFLOW", line |-> p.cur]
    ELSE LET t == trim_ws(p.cur) IN
         IF t = << >> THEN [st |-> "EMPTY", line |-> << >>]
         ELSE IF ~p.cfg.allow_dollar_commands /\ t[1] = Dollar
              THEN [st |-> "EMPTY", line |-> << >>]
              ELSE [st |-> "OK", line |-> t]

\* at: the index in the fed data of the byte that completed the line
emit_line(p, at) ==
    LET r == line_status(p)
        p1 == [p EXCEPT !.cur = << >>, !.cur_overflow = FALSE,
                        !.in_paren_comment = FALSE, !.seen = 0]
    IN IF r.st = "EMPTY" THEN PO(p1, << >>)
       ELSE IF p.on_line
            THEN PO(p1, << [kind |-> "line", line |-> r.line, st |-> r.st,
                            at |-> at, seen |-> p.seen] >>)
            ELSE PO(queue_push(p1, r.line, r.st), << >>)

\* variant that makes no callback while a parenthesis comment is open
emit_rt_QuietInComment(p, cmd, at) ==
    IF p.on_rt /\ ~p.in_paren_comment
    THEN << [kind |-> "rt", cmd |-> cmd, at |-> at] >> ELSE << >>

emit_rt(p, cmd, at) ==
    IF p.on_rt THEN << [kind |-> "rt", cmd |-> cmd, at |-> at] >> ELSE << >>

\* variant that keeps the queued lines
protocol_reset_KeepQueue(p) ==
    [p EXCEPT !.cur = << >>, !.cur_overflow = FALSE, !.in_paren_comment = FALSE,
              !.seen = 0]

protocol_reset(p) ==
    [p EXCEPT !.cur = << >>, !.cur_overflow = FALSE, !.in_paren_comment = FALSE,
              !.q_head = 0, !.q_tail = 0, !.q_count = 0,
              !.q = [k \in QSlots |-> << >>],
              !.seen = 0]

\* variant that lets '!' through to the line
rt_cmd_NoHold(c) ==
    IF c = CtrlX THEN "RESET"
    ELSE IF c = Query THEN "STATUS_QUERY"
    ELSE IF c = Tilde THEN "CYCLE_START"
    ELSE "NONE"

\* the real-time command a byte stands for
rt_cmd(c) ==
    IF c = CtrlX THEN "RESET"
    ELSE IF c = Query THEN "STATUS_QUERY"
    ELSE IF c = Bang THEN "FEED_HOLD"
    ELSE IF c = Tilde THEN "CYCLE_START"
    ELSE "NONE"

\* variant that tests the length with <=
append_char_OffByOne(p, ch) ==
    IF Len(p.cur) <= PROTOCOL_LINE_MAX
    THEN [p EXCEPT !.cur = Append(@, ch), !.seen = @ + 1]
    ELSE [p EXCEPT !.cur_overflow = TRUE, !.seen = @ + 1]

\* the append step
append_char(p, ch) ==
    IF Len(p.cur) < PROTOCOL_LINE_MAX
    THEN [p EXCEPT !.cur = Append(@, ch), !.seen = @ + 1]
    ELSE [p EXCEPT !.cur_overflow = TRUE, !.seen = @ + 1]

\* the inner loop a ';' starts: it runs to the end of the fed data
RECURSIVE eat_to_end(_, _, _, _)
eat_to_end(p, data, i, out) ==
    IF i > Len(data) THEN PO(p, out)
    ELSE LET c == data[i] IN
         IF c = LF
         THEN LET e == emit_line(p, i) IN eat_to_end(e.p, data, i + 1, out \o e.out)
         ELSE IF rt_cmd(c) = "RESET"
         THEN eat_to_end(protocol_reset(p), data, i + 1, out \o emit_rt(p, "RESET", i))
         ELSE IF rt_cmd(c) # "NONE"
         THEN eat_to_end(p, data, i + 1, out \o emit_rt(p, rt_cmd(c), i))
         ELSE eat_to_end(p, data, i + 1, out)

\* the byte loop of protocol_feed_bytes from index i on
RECURSIVE feed_loop(_, _, _, _)
feed_loop(p, data, i, out) ==
    IF i > Len(data) THEN PO(p, out)
    ELSE LET c == data[i] IN
         IF rt_cmd(c) = "RESET"
         THEN feed_loop(protocol_reset(p), data, i + 1, out \o emit_rt(p, "RESET", i))
         ELSE IF rt_cmd(c) # "NONE"
         THEN feed_loop(p, data, i + 1, out \o emit_rt(p, rt_cmd(c), i))
         ELSE IF c = LF
         THEN LET e == emit_line(p, i) IN feed_loop(e.p, data, i + 1, out \o e.out)
         ELSE IF c = CR THEN feed_loop(p, data, i + 1, out)
         ELSE IF ~(is_printable_ascii(c) \/ c = Tab) THEN feed_loop(p, data, i + 1, out)
         ELSE IF p.cfg.strip_paren_comments /\ p.in_paren_comment
         THEN feed_loop([p EXCEPT !.in_paren_comment = (c # RParen)], data, i + 1, out)
         ELSE IF p.cfg.strip_paren_comments /\ c = LParen
         THEN feed_loop([p EXCEPT !.in_paren_comment = TRUE], data, i + 1, out)
         ELSE IF p.cfg.strip_semicolon_comments /\ c = Semicolon
         THEN eat_to_end(p, data, i + 1, out)
         ELSE feed_loop(append_char(p, IF p.cfg.to_uppercase THEN to_upper(c) ELSE c),
                        data, i + 1, out)

protocol_feed_bytes(p, data) == feed_loop(p, data, 1, << >>)

protocol_pop_line(p) == queue_pop(p)

protocol_has_line(p) == p.q_count # 0

(* ----------------------------- supervisor ----------------------------- *)

\* a call's result: the return value and the contexts it leaves
Out(ret, s, h) == [ret |-> ret, sys |-> s, hal |-> h]

system_init ==
    [state |-> "Idle", alarm |-> "None",
     gcode |-> gcode_init, planner |-> planner_queue_init,
     homed |-> FALSE, limits_enabled |-> TRUE,
     machine_x |-> 0, machine_y |-> 0, machine_z |-> 0,
     total_lines_processed |-> 0, total_errors |-> 0]

\* on_line_received, reached through system_process_line
\* variant that also executes the line in Check
on_line_received_ExecInCheck(s, line) ==
    IF s.state \in {"Idle", "Running", "Check"} THEN
        LET r == gcode_process_line(s.gcode, line) IN
        IF r.status = "OK"
        THEN [s EXCEPT !.gcode = r.gc,
                       !.total_lines_processed = @ + 1,
                       !.state = IF s.state = "Idle" THEN "Running" ELSE @]
        ELSE [s EXCEPT !.gcode = r.gc, !.total_errors = @ + 1]
    ELSE [s EXCEPT !.total_errors = @ + 1]

on_line_received(s, line) ==
    IF s.state \in {"Idle", "Running"} THEN
        LET r == gcode_process_line(s.gcode, line) IN
        IF r.status = "OK"
        THEN [s EXCEPT !.gcode = r.gc,
                       !.total_lines_processed = @ + 1,
                       !.state = IF s.state = "Idle" THEN "Running" ELSE @]
        ELSE [s EXCEPT !.gcode = r.gc, !.total_errors = @ + 1]
    ELSE IF s.state = "Check" THEN
        \* the parse result is discarded
        [s EXCEPT !.total_lines_processed = @ + 1]
    ELSE [s EXCEPT !.total_errors = @ + 1]

system_process_line(s, h, line) == Out(TRUE, on_line_received(s, line), h)

system_reset(s, h) ==
    Out(TRUE, [s EXCEPT !.gcode = gcode_reset,
                        !.planner = planner_queue_clear(@),
                        !.state = "Idle", !.alarm = "None"], h)

\* variant that leaves the motor drivers enabled
system_trigger_alarm_MotorsOn(s, h, alarm) ==
    Out(TRUE, [s EXCEPT !.state = "Alarm", !.alarm = alarm,
                        !.planner = planner_queue_clear(@)],
              [h EXCEPT !.spindle_dir = "Off", !.spindle_pwm = 0])

system_trigger_alarm(s, h, alarm) ==
    Out(TRUE, [s EXCEPT !.state = "Alarm", !.alarm = alarm,
                        !.planner = planner_queue_clear(@)],
              [h EXCEPT !.stepper_enable = FALSE,
                        !.spindle_dir = "Off", !.spindle_pwm = 0])

\* variant that checks the inputs in Running whether or not limits are enabled
poll_inputs_IgnoreEnable(s, h, inputs) ==
    IF s.state = "Running" THEN
        LET a == IF inputs.limit_x \/ inputs.limit_y \/ inputs.limit_z
                 THEN system_trigger_alarm(s, h, "HardLimit")
                 ELSE Out(TRUE, s, h)
        IN IF inputs.estop THEN system_trigger_alarm(a.sys, a.hal, "EStop") ELSE a
    ELSE Out(TRUE, s, h)

\* the limit and e-stop block of system_poll
poll_inputs(s, h, inputs) ==
    IF s.limits_enabled /\ s.state = "Running" THEN
        LET a == IF inputs.limit_x \/ inputs.limit_y \/ inputs.limit_z
                 THEN system_trigger_alarm(s, h, "HardLimit")
                 ELSE Out(TRUE, s, h)
        IN IF inputs.estop THEN system_trigger_alarm(a.sys, a.hal, "EStop") ELSE a
    ELSE Out(TRUE, s, h)

system_poll(s, h, inputs) ==
    LET a == poll_inputs(s, h, inputs) IN
    Out(TRUE, [a.sys EXCEPT !.machine_x = a.sys.gcode.position_x,
                            !.machine_y = a.sys.gcode.position_y], a.hal)

\* variant without the alarm latch
set_state_refused_NoLatch(old_state, new_state) ==
    \/ new_state = "Homing" /\ old_state # "Idle"
    \/ new_state = "Running" /\ old_state \notin {"Idle", "Hold"}

\* variant without the precondition on Running
set_state_refused_AnyToRunning(old_state, new_state) ==
    \/ old_state = "Alarm" /\ new_state # "Idle"
    \/ new_state = "Homing" /\ old_state # "Idle"

\* the transition check of system_set_state: TRUE when the request is refused
set_state_refused(old_state, new_state) ==
    \/ old_state = "Alarm" /\ new_state # "Idle"
    \/ new_state = "Homing" /\ old_state # "Idle"
    \/ new_state = "Running" /\ old_state \notin {"Idle", "Hold"}

system_set_state(s, h, new_state) ==
    IF set_state_refused(s.state, new_state) THEN Out(FALSE, s, h)
    ELSE Out(TRUE, [s EXCEPT !.state = new_state], h)

system_clear_alarm(s, h) ==
    IF s.state # "Alarm" THEN Out(FALSE, s, h)
    ELSE Out(TRUE, [s EXCEPT !.alarm = "None", !.state = "Idle"], h)

\* variant that holds from Idle as well
system_feed_hold_FromIdle(s, h) ==
    Out(TRUE, IF s.state \in {"Running", "Jog", "Idle"} THEN [s EXCEPT !.state = "Hold"] ELSE s, h)

system_feed_hold(s, h) ==
    Out(TRUE, IF s.state \in {"Running", "Jog"} THEN [s EXCEPT !.state = "Hold"] ELSE s, h)

system_cycle_start(s, h) ==
    Out(TRUE, IF s.state = "Hold" THEN [s EXCEPT !.state = "Running"] ELSE s, h)

\* variant without the Idle precondition
system_start_homing_AnyState(s, h, kin) ==
    IF kin = "reject" THEN Out(FALSE, s, h)
    ELSE Out(TRUE, [s EXCEPT !.machine_x = 0, !.machine_y = 0, !.machine_z = 0,
                             !.homed = TRUE, !.state = "Idle"], h)

\* kin: "null" when g_kin.validate_homing_axes is not set, else the adapter's answer
system_start_homing(s, h, kin) ==
    IF s.state # "Idle" THEN Out(FALSE, s, h)
    ELSE IF kin = "reject" THEN Out(FALSE, s, h)
    ELSE Out(TRUE, [s EXCEPT !.machine_x = 0, !.machine_y = 0, !.machine_z = 0,
                             !.homed = TRUE, !.state = "Idle"], h)

system_set_limits_enabled(s, h, enabled) ==
    Out(TRUE, [s EXCEPT !.limits_enabled = enabled], h)

\* an external producer appends a block to the supervisor's planner queue
planner_queue_push(s, h, block) ==
    Out(TRUE, [s EXCEPT !.planner = Append(@, block)], h)

(* ------------------------- calls and behaviours ----------------------- *)

\* a call takes effect and is recorded together with the state it found
Call(op, arg, r) ==
    /\ sys' = r.sys
    /\ hal' = r.hal
    /\ last' = [op |-> op, arg |-> arg, ret |-> r.ret, pre_state |-> sys.state]
    /\ UNCHANGED <<stp, proto, rx, main>>

\* a call on the stepper context, recorded with the phase it found
StCall(op, arg, r) ==
    /\ stp' = r.stp
    /\ hal' = r.hal
    /\ last' = [op |-> op, arg |-> arg, ret |-> r.ret, pre_state |-> stp.state]
    /\ UNCHANGED <<sys, proto, rx, main>>

\* lines fed to the supervisor: a rapid move, a linear move without feedrate
\* and a malformed word
SysLines ==
    { <<W("G", 0), W("X", 1)>>,
      <<W("G", 1), W("X", 2)>>,
      <<Bad("X")>> }

\* alarms raised through system_trigger_alarm by callers
TriggerAlarms == {"SoftLimit", "EStop"}

\* what hal_read_inputs may report to a poll
PollInputs ==
    { NoInputs,
      [NoInputs EXCEPT !.limit_x = TRUE],
      [NoInputs EXCEPT !.estop = TRUE],
      [NoInputs EXCEPT !.limit_z = TRUE, !.estop = TRUE] }

\* blocks a producer may queue (only their number matters to the supervisor)
QueueBlocks == {[step_event_count |-> 1, direction_bits |-> 1]}

KinAnswers == {"null", "accept", "reject"}

Do_process_line(line) ==
    /\ sys.total_lines_processed + sys.total_errors < MaxLines
    /\ Call("process_line", line, system_process_line(sys, hal, line))

Do_poll(inputs) == Call("poll", inputs, system_poll(sys, hal, inputs))

Do_set_state(new_state) == Call("set_state", new_state, system_set_state(sys, hal, new_state))

Do_trigger_alarm(alarm) == Call("trigger_alarm", alarm, system_trigger_alarm(sys, hal, alarm))

Do_clear_alarm == Call("clear_alarm", "", system_clear_alarm(sys, hal))

Do_reset == Call("reset", "", system_reset(sys, hal))

Do_feed_hold == Call("feed_hold", "", system_feed_hold(sys, hal))

Do_cycle_start == Call("cycle_start", "", system_cycle_start(sys, hal))

Do_start_homing(kin) == Call("start_homing", kin, system_start_homing(sys, hal, kin))

Do_set_limits_enabled(enabled) ==
    Call("set_limits_enabled", enabled, system_set_limits_enabled(sys, hal, enabled))

Do_queue_push(block) ==
    /\ Len(sys.planner) < MaxQueue
    /\ Call("queue_push", block, planner_queue_push(sys, hal, block))

Do_enable_motors(enable) ==
    StCall("enable_motors", enable, stepper_enable_motors(stp, hal, enable))

Do_load_block(block) ==
    /\ IF block = << >> THEN TRUE
       ELSE \A axis \in Axes :
               hal.pulses[axis] + block_to_steps(block[1])[axis] <= MaxPulses
    /\ StCall("load_block", block, stepper_load_block(stp, hal, block))

Do_update == StCall("update", "", stepper_update(stp, hal))

Do_hold == StCall("hold", "", stepper_hold(stp, hal))

Do_resume == StCall("resume", "", stepper_resume(stp, hal))

Do_stop == StCall("stop", "", stepper_stop(stp, hal))

Do_stepper_init(config) == StCall("stepper_init", config, stepper_init(hal, config))

Do_set_config(config) == StCall("set_config", config, stepper_set_config(stp, hal, config))

Do_stepper_reset == StCall("stepper_reset", "", stepper_reset(stp, hal))

\* the 1 kHz HAL tick advances the clock by a millisecond
Tick ==
    /\ hal.time_us < MaxTicks * 1000
    /\ hal' = [hal EXCEPT !.time_us = @ + 1000]
    /\ UNCHANGED <<sys, stp, last, proto, rx, main>>

\* no stepper call is in progress in the non-ISR context
MainIdle == [pc |-> 0, op |-> "none", block |-> << >>, pre |-> << >>, isr |-> 0]

\* a configuration with every option on
DefaultProtoConfig ==
    [allow_dollar_commands |-> TRUE, strip_paren_comments |-> TRUE,
     strip_semicolon_comments |-> TRUE, to_uppercase |-> TRUE]

\* nothing fed, no callback made, nothing popped
RxInit == [stream |-> << >>, log |-> << >>, popped |-> << >>]

\* the HAL before construction: spindle off, or left running by the board
HalPowerUp ==
    { [time_us |-> 0, stepper_enable |-> FALSE, dir |-> [axis \in Axes |-> FALSE],
       pulses |-> ZeroAxes, spindle_dir |-> sp.dir, spindle_pwm |-> sp.pwm] :
        sp \in {[dir |-> "Off", pwm |-> 0], [dir |-> "CW", pwm |-> 50]} }

\* system_init and stepper_init(ctx, NULL) have run
Init ==
    /\ sys = system_init
    /\ \E h \in HalPowerUp :
          /\ stp = stepper_init(h, DefaultConfig).stp
          /\ hal = stepper_init(h, DefaultConfig).hal
    /\ last = [op |-> "init", arg |-> "", ret |-> TRUE, pre_state |-> "Idle"]
    /\ proto = protocol_init(DefaultProtoConfig, TRUE, TRUE)
    /\ rx = RxInit
    /\ main = MainIdle

Next ==
    \/ \E line \in SysLines : Do_process_line(line)
    \/ \E inputs \in PollInputs : Do_poll(inputs)
    \/ \E new_state \in SysStates : Do_set_state(new_state)
    \/ \E alarm \in TriggerAlarms : Do_trigger_alarm(alarm)
    \/ Do_clear_alarm
    \/ Do_reset
    \/ Do_feed_hold
    \/ Do_cycle_start
    \/ \E kin \in KinAnswers : Do_start_homing(kin)
    \/ \E enabled \in BOOLEAN : Do_set_limits_enabled(enabled)

Spec == Init /\ [][Next]_vars

(* ---------------- supervisor and stepper sharing the HAL --------------- *)

Blk(steps, bits, entry, nominal) ==
    [entry_speed |-> entry, nominal_speed |-> nominal, exit_speed |-> 0,
     acceleration |-> 0, max_entry_speed |-> 0, millimeters |-> steps,
     direction_bits |-> bits, step_event_count |-> steps]

\* blocks offered to the stepper: two steps forward at the default interval,
\* one step backward at 2 ms per step, and one whose entry speed exceeds nominal
StepBlocks ==
    { <<Blk(2, 1, 0, 0)>>, <<Blk(1, 0, 30000, 60000)>>, <<Blk(1, 1, 200, 100)>> }

\* the supervisor's state requests and alarms interleaved with stepper motion
NextMotion ==
    \/ \E new_state \in SysStates : Do_set_state(new_state)
    \/ \E alarm \in TriggerAlarms : Do_trigger_alarm(alarm)
    \/ Do_clear_alarm
    \/ \E block \in QueueBlocks : Do_queue_push(block)
    \/ \E block \in StepBlocks : Do_load_block(block)
    \/ Do_update
    \/ Tick

SpecMotion == Init /\ [][NextMotion]_vars

(* --------- the main loop left to itself: lines, polls and ticks -------- *)

RunLines == { <<W("G", 0), W("X", 1)>>, <<W("G", 91)>> }

\* no limit or e-stop input is asserted and nobody requests a state
NextRun ==
    \/ \E line \in RunLines : Do_process_line(line)
    \/ Do_poll(NoInputs)
    \/ \E block \in StepBlocks : Do_load_block(block)
    \/ Do_update
    \/ Tick

\* the main loop keeps calling system_poll and stepper_update, and the clock runs
SpecRun ==
    /\ Init
    /\ [][NextRun]_vars
    /\ WF_vars(Do_poll(NoInputs))
    /\ WF_vars(Do_update)
    /\ WF_vars(Tick)

(* ------------------------ stepper main loop --------------------------- *)

\* time between two calls of the main loop: a quarter of the clock's range, so
\* that hal_micros wraps around while a behaviour goes on
ClockStride == 2 ^ 28

TickWrap ==
    /\ hal' = [hal EXCEPT !.time_us = U32(@ + ClockStride)]
    /\ UNCHANGED <<sys, stp, last, proto, rx, main>>

NextStep ==
    \/ \E block \in StepBlocks : Do_load_block(block)
    \/ Do_update
    \/ Do_hold
    \/ Do_resume
    \/ TickWrap

\* the loop keeps calling stepper_update at least as often as steps fall due,
\* time advances, and a held stepper is resumed
SpecStep ==
    /\ Init /\ [][NextStep]_vars
    /\ SF_<<stp, hal>>(Do_update)
    /\ WF_hal(TickWrap)
    /\ SF_stp(Do_resume)

(* --------------- the main loop with the motors switched by hand -------- *)

\* the motors are switched on by hand; blocks are loaded and run to completion
NextIdle ==
    \/ Do_enable_motors(TRUE)
    \/ \E block \in StepBlocks : Do_load_block(block)
    \/ Do_update
    \/ TickWrap

\* the loop keeps calling stepper_update and time advances
SpecIdle ==
    Init /\ [][NextIdle]_vars /\ SF_<<stp, hal>>(Do_update) /\ WF_hal(TickWrap)

(* ---------------- the whole stepper API called in any order ------------- *)

\* configurations handed to stepper_init and stepper_set_config: the default,
\* one that claims the motors are already on, and one that never idles them off
StepConfigs ==
    { DefaultConfig,
      [DefaultConfig EXCEPT !.motors_enabled = TRUE],
      [DefaultConfig EXCEPT !.idle_disable = FALSE] }

\* every stepper entry point, the supervisor's alarms and the clock
NextApi ==
    \/ \E config \in StepConfigs : Do_stepper_init(config)
    \/ \E config \in StepConfigs : Do_set_config(config)
    \/ \E enable \in BOOLEAN : Do_enable_motors(enable)
    \/ Do_stepper_reset
    \/ \E alarm \in TriggerAlarms : Do_trigger_alarm(alarm)
    \/ \E block \in StepBlocks \cup { << >> } :
          hal.time_us < MaxTicks * 1000 /\ Do_load_block(block)
    \/ Do_update
    \/ Do_hold
    \/ Do_resume
    \/ Do_stop
    \/ Tick

SpecApi == Init /\ [][NextApi]_vars

(* ------------- stepper_update as a timer ISR, statement by statement ---- *)

\* result of one statement: the next position (0: the call has returned)
Stmt(pc, ret, c, h) == [pc |-> pc, ret |-> ret, stp |-> c, hal |-> h]

\* stepper_load_block, one statement at a time
load_stmt(pc, c, h, block) ==
    CASE pc = 1 -> IF block = << >> \/ c.state # "Idle"
                      \/ ~planner_block_validate(block[1])
                   THEN Stmt(0, FALSE, c, h) ELSE Stmt(2, TRUE, c, h)
      [] pc = 2 -> Stmt(3, TRUE, [c EXCEPT !.target_steps = block_to_steps(block[1])], h)
      [] pc = 3 -> Stmt(4, TRUE, [c EXCEPT !.current_block = block], h)
      [] pc = 4 -> Stmt(5, TRUE, [c EXCEPT !.step_count = ZeroAxes], h)
      [] pc = 5 -> Stmt(6, TRUE, c,
                        delay_us(set_directions(h, block[1].direction_bits),
                                 c.config.dir_setup_us))
      [] pc = 6 -> Stmt(7, TRUE, [c EXCEPT !.step_interval_us = step_interval(block[1])], h)
      [] pc = 7 -> Stmt(8, TRUE, [c EXCEPT !.current_speed = block[1].entry_speed], h)
      [] pc = 8 -> IF ~c.config.motors_enabled
                   THEN Stmt(9, TRUE, [c EXCEPT !.config.motors_enabled = TRUE],
                                      [h EXCEPT !.stepper_enable = TRUE])
                   ELSE Stmt(9, TRUE, c, h)
      [] pc = 9 -> Stmt(10, TRUE, [c EXCEPT !.state = "Running"], h)
      [] pc = 10 -> Stmt(0, TRUE, [c EXCEPT !.last_step_time_us = hal_micros(h)], h)

\* stepper_hold: the test of the phase, then the store
hold_stmt(pc, c, h) ==
    CASE pc = 1 -> IF c.state = "Running" THEN Stmt(2, TRUE, c, h) ELSE Stmt(0, TRUE, c, h)
      [] pc = 2 -> Stmt(0, TRUE, [c EXCEPT !.state = "Hold"], h)

\* stepper_resume: the test of the phase and the two stores
resume_stmt(pc, c, h) ==
    CASE pc = 1 -> IF c.state = "Hold" THEN Stmt(2, TRUE, c, h) ELSE Stmt(0, TRUE, c, h)
      [] pc = 2 -> Stmt(3, TRUE, [c EXCEPT !.state = "Running"], h)
      [] pc = 3 -> Stmt(0, TRUE, [c EXCEPT !.last_step_time_us = hal_micros(h)], h)

\* stepper_stop: a single store
stop_stmt(pc, c, h) == Stmt(0, TRUE, [c EXCEPT !.state = "Stopping"], h)

main_stmt(m, c, h) ==
    CASE m.op = "load_block" -> load_stmt(m.pc, c, h, m.block)
      [] m.op = "hold" -> hold_stmt(m.pc, c, h)
      [] m.op = "resume" -> resume_stmt(m.pc, c, h)
      [] m.op = "stop" -> stop_stmt(m.pc, c, h)

\* the same call run without interruption
main_call(op, c, h, block) ==
    CASE op = "load_block" -> stepper_load_block(c, h, block)
      [] op = "hold" -> stepper_hold(c, h)
      [] op = "resume" -> stepper_resume(c, h)
      [] op = "stop" -> stepper_stop(c, h)

\* the non-ISR context enters a stepper call
Main_call(op, block) ==
    /\ main.pc = 0
    /\ main' = [pc |-> 1, op |-> op, block |-> block, pre |-> <<stp, hal>>, isr |-> 0]
    /\ UNCHANGED <<sys, stp, hal, last, proto, rx>>

\* the non-ISR context executes the next statement of its call
Main_stmt ==
    /\ main.pc > 0
    /\ LET r == main_stmt(main, stp, hal) IN
          /\ stp' = r.stp
          /\ hal' = r.hal
          /\ main' = [main EXCEPT !.pc = r.pc]
          /\ last' = IF r.pc = 0
                     THEN [op |-> main.op, arg |-> main.block, ret |-> r.ret,
                           pre_state |-> main.pre[1].state]
                     ELSE last
    /\ UNCHANGED <<sys, proto, rx>>

\* the timer interrupt: stepper_update runs to completion
Isr_update ==
    /\ main.pc > 0 => main.isr < MaxIsr
    /\ LET r == stepper_update(stp, hal) IN
          /\ stp' = r.stp
          /\ hal' = r.hal
          /\ last' = [op |-> "update", arg |-> "", ret |-> r.ret, pre_state |-> stp.state]
    /\ main' = IF main.pc > 0 THEN [main EXCEPT !.isr = @ + 1] ELSE main
    /\ UNCHANGED <<sys, proto, rx>>

\* the phase-change calls
PhaseOps == {"hold", "resume", "stop"}

NextIsr ==
    \/ \E block \in StepBlocks :
          /\ hal.time_us < MaxTicks * 1000
          /\ \A axis \in Axes :
                hal.pulses[axis] + block_to_steps(block[1])[axis] <= MaxPulses
          /\ Main_call("load_block", block)
    \/ \E op \in PhaseOps : Main_call(op, << >>)
    \/ Main_stmt
    \/ Isr_update
    \/ main.pc = 0 /\ Tick

SpecIsr == Init /\ [][NextIsr]_vars

(* ------------------- the interpreter fed line by line ------------------- *)

\* gcode_process_line on the supervisor's ModalState, without the supervisor
Do_gcode_line(line) ==
    \E r \in {gcode_process_line(sys.gcode, line)} :
       /\ r.gc.position_x \in 0..MaxCoord
       /\ r.gc.position_y \in 0..MaxCoord
       /\ sys' = [sys EXCEPT !.gcode = r.gc]
       /\ last' = [op |-> "gcode_process_line", arg |-> line, ret |-> r.status = "OK",
                   pre_state |-> sys.state]
       /\ UNCHANGED <<stp, hal, proto, rx, main>>

Do_gcode_reset ==
    /\ sys' = [sys EXCEPT !.gcode = gcode_reset]
    /\ last' = [op |-> "gcode_reset", arg |-> << >>, ret |-> TRUE, pre_state |-> sys.state]
    /\ UNCHANGED <<stp, hal, proto, rx, main>>

\* lines of a small engraving job, the words in varying order: moves with and
\* without F, mode switches, moves combined with M and S words, spindle
\* commands with and without S, an unknown M-code, arcs,
\* coordinate words without a G-word and lines with two G or two M words
GcodeLines ==
    { <<W("G", 0), W("X", 10), W("Y", 20)>>,
      <<W("Y", 10), W("X", 5), W("G", 0)>>,
      <<W("G", 1), W("X", 5)>>,
      <<W("F", 200), W("X", 10), W("G", 1)>>,
      <<W("G", 1), W("Y", 10), W("F", 0)>>,
      <<W("G", 91)>>,
      <<W("G", 90)>>,
      <<W("M", 30), W("X", 5), W("G", 0)>>,
      <<W("S", 1000), W("M", 3), W("G", 1), W("Y", 10)>>,
      <<W("G", 0), W("X", 5), W("M", 7)>>,
      <<W("M", 3), W("S", 1000)>>,
      <<W("S", 1000), W("M", 4)>>,
      <<W("M", 5)>>,
      <<W("M", 5), W("S", 1000)>>,
      <<W("S", 1000)>>,
      <<W("M", 7), W("S", 1000)>>,
      <<W("G", 2), W("X", 10), W("I", 5), W("F", 200)>>,
      <<W("J", 5), W("Y", 10), W("G", 3)>>,
      <<W("X", 5), W("Y", 10)>>,
      <<W("X", 7), W("S", 1000), W("M", 4)>>,
      <<W("G", 91), W("G", 0), W("X", 5)>>,
      <<W("M", 3), W("M", 5)>> }

\* a G02/G03 line executed with the arc generator spelled out
Do_arc_line(line, raw, mids) ==
    LET block == gcode_parse_line(line).block
        mode == IF block.g_code = 2 THEN "ArcCW" ELSE "ArcCCW"
    IN \E ra \in {execute_arc_segments([sys.gcode EXCEPT !.motion_mode = mode],
                                       block, raw, mids)} :
       \E r \in {execute_m_s(St(ra.status, ra.gc), block)} :
          /\ r.gc.position_x \in 0..MaxCoord
          /\ r.gc.position_y \in 0..MaxCoord
          /\ sys' = [sys EXCEPT !.gcode = r.gc]
          /\ last' = [op |-> "arc_line", arg |-> [line |-> line, arc |-> ra.arc],
                      ret |-> r.status = "OK", pre_state |-> sys.state]
          /\ UNCHANGED <<stp, hal, proto, rx, main>>

\* arcs by centre offset and by radius, one with M30, one about a centre that
\* coincides with start and end, one without centre
ArcLines ==
    { <<W("G", 2), W("X", 10), W("I", 5), W("F", 200)>>,
      <<W("J", 5), W("Y", 10), W("G", 3)>>,
      <<W("G", 3), W("X", 5), W("R", 5), W("F", 200)>>,
      <<W("G", 2), W("X", 5), W("I", 5), W("M", 30)>>,
      <<W("G", 2), W("I", 0), W("F", 200)>>,
      <<W("G", 3), W("X", 5)>> }

\* lines that set up the start of an arc
ArcSetupLines ==
    { <<W("G", 0), W("X", 10), W("Y", 20)>>, <<W("G", 91)>>, <<W("G", 90)>> }

\* values of (int)(arc_length / ARC_SEGMENT_LEN_MM), out-of-range conversions included
RawSegments == (-1)..(MaxSegments + 1)

\* intermediate points cosf/sinf may give
MidPoints == { <<1, 1>>, <<7, 3>> }

NextArc ==
    \/ \E line \in ArcSetupLines : Do_gcode_line(line)
    \/ \E line \in ArcLines, raw \in RawSegments,
          mids \in [1..(MaxSegments - 1) -> MidPoints] : Do_arc_line(line, raw, mids)

SpecArc == Init /\ [][NextArc]_vars

NextGcode ==
    \/ \E line \in GcodeLines : Do_gcode_line(line)
    \/ Do_gcode_reset

SpecGcode == Init /\ [][NextGcode]_vars

(* --------------------- blocks offered for validation -------------------- *)

\* values of the float fields of a block: negative, zero, two positive, NaN
FloatVals == {-1, 0, 1, 2, NaN}

\* the blocks a caller may hand over, the NULL pointer (<< >>) included
ValidateBlocks ==
    { << [entry_speed |-> e, nominal_speed |-> n, exit_speed |-> x,
          acceleration |-> a, max_entry_speed |-> m, millimeters |-> mm,
          direction_bits |-> 1, step_event_count |-> 1] >> :
        e \in FloatVals, n \in FloatVals, x \in FloatVals,
        a \in FloatVals, m \in FloatVals, mm \in FloatVals } \cup { << >> }

\* one call on a fresh block
Do_validate(block) ==
    /\ last.op = "init"
    /\ last' = [op |-> "planner_block_validate", arg |-> block,
                ret |-> (IF block = << >> THEN FALSE
                         ELSE planner_block_validate(block[1])),
                pre_state |-> sys.state]
    /\ UNCHANGED <<sys, stp, hal, proto, rx, main>>

NextPlanner == \E block \in ValidateBlocks : Do_validate(block)

SpecPlanner == Init /\ [][NextPlanner]_vars

(* ------------------------- framer behaviours -------------------------- *)

\* protocol_feed_bytes(p, data, len): the callbacks it makes are logged with the
\* stream position of the byte that caused them
Do_feed(data, max) ==
    /\ Len(rx.stream) + Len(data) <= max
    /\ LET r == protocol_feed_bytes(proto, data)
           base == Len(rx.stream)
       IN /\ proto' = r.p
          /\ rx' = [rx EXCEPT !.stream = @ \o data,
                              !.log = @ \o [k \in 1 .. Len(r.out) |->
                                              [r.out[k] EXCEPT !.at = @ + base]]]
    /\ last' = [op |-> "feed", arg |-> data, ret |-> TRUE, pre_state |-> ""]
    /\ UNCHANGED <<sys, stp, hal, main>>

\* protocol_pop_line(p, out, cap, &st)
Do_pop ==
    /\ LET r == protocol_pop_line(proto)
       IN /\ proto' = r.p
          /\ rx' = IF r.ret
                   THEN [rx EXCEPT !.popped = Append(@, [line |-> r.line, st |-> r.st])]
                   ELSE rx
          /\ last' = [op |-> "pop", arg |-> "", ret |-> r.ret, pre_state |-> ""]
    /\ UNCHANGED <<sys, stp, hal, main>>

\* the ways protocol_init is called: options, line callback or queue, rt callback
ProtoSetups ==
    { [cfg |-> DefaultProtoConfig, on_line |-> TRUE, on_rt |-> TRUE],
      [cfg |-> DefaultProtoConfig, on_line |-> FALSE, on_rt |-> TRUE],
      [cfg |-> [allow_dollar_commands |-> FALSE, strip_paren_comments |-> FALSE,
                strip_semicolon_comments |-> FALSE, to_uppercase |-> FALSE],
       on_line |-> TRUE, on_rt |-> TRUE],
      [cfg |-> [allow_dollar_commands |-> FALSE, strip_paren_comments |-> TRUE,
                strip_semicolon_comments |-> FALSE, to_uppercase |-> FALSE],
       on_line |-> FALSE, on_rt |-> FALSE] }

InitProto(setups) ==
    /\ sys = system_init
    /\ LET h == CHOOSE h \in HalPowerUp : h.spindle_dir = "Off"
       IN /\ stp = stepper_init(h, DefaultConfig).stp
          /\ hal = stepper_init(h, DefaultConfig).hal
    /\ last = [op |-> "init", arg |-> "", ret |-> TRUE, pre_state |-> "Idle"]
    /\ \E su \in setups : proto = protocol_init(su.cfg, su.on_line, su.on_rt)
    /\ rx = RxInit
    /\ main = MainIdle

\* bytes the host sends one at a time
FeedBytes == {LF, CtrlX, Query, Bang, Tilde, Semicolon, LParen, RParen, LowerA, Space}

\* longer chunks: a comment with a line end, a query or a reset inside the chunk, CR LF,
\* a bell character before a letter
FeedChunks ==
    { <<Semicolon, LF, LowerA>>, <<Semicolon, Query>>, <<Semicolon, CtrlX>>,
      <<CR, LF>>, <<7, LowerA>> }

NextProto ==
    \/ \E c \in FeedBytes : Do_feed(<<c>>, MaxBytes)
    \/ \E data \in FeedChunks : Do_feed(data, MaxBytes)

SpecProto == InitProto(ProtoSetups) /\ [][NextProto]_vars

\* queue mode: no line callback, with and without '$' lines
QueueSetups ==
    { [cfg |-> [DefaultProtoConfig EXCEPT !.allow_dollar_commands = d],
       on_line |-> FALSE, on_rt |-> TRUE] : d \in BOOLEAN }

QueueBytes == {LF, LowerA, Dollar, Space}

NextQueue ==
    \/ \E c \in QueueBytes : Do_feed(<<c>>, MaxQueueBytes)
    \/ Do_pop

SpecQueue == InitProto(QueueSetups) /\ [][NextQueue]_vars

(* ======================== supervisor properties ======================== *)

SupervisorOps ==
    {"process_line", "poll", "set_state", "trigger_alarm", "clear_alarm", "reset",
     "feed_hold", "cycle_start", "start_homing", "set_limits_enabled", "queue_push"}

\* C1: once the state is Alarm no supervisor call leaves it for a state other
\* than Idle; set_state(s) with s # Idle returns false and stays in Alarm, and
\* feed_hold, cycle_start, process_line, start_homing and poll stay in Alarm.
C1_AlarmLatched ==
    (last.op \in SupervisorOps /\ last.pre_state = "Alarm") =>
        /\ sys.state \in {"Alarm", "Idle"}
        /\ (last.op = "set_state" /\ last.arg # "Idle") =>
               (~last.ret /\ sys.state = "Alarm")
        /\ last.op \in {"feed_hold", "cycle_start", "process_line", "start_homing", "poll"}
               => sys.state = "Alarm"

\* a refused set_state(Running) in Alarm, after which the state is still Alarm
C1_Witness ==
    /\ last.op = "set_state" /\ last.pre_state = "Alarm" /\ last.arg = "Running"
    /\ ~last.ret /\ sys.state = "Alarm"

AnyLimit(inputs) == inputs.limit_x \/ inputs.limit_y \/ inputs.limit_z

\* C2: a poll that reads the e-stop input asserted ends in Alarm with alarm
\* code EStop, whatever the state was and whether or not limits are enabled.
C2_EStopAlwaysAlarms ==
    (last.op = "poll" /\ last.arg.estop) =>
        (sys.state = "Alarm" /\ sys.alarm = "EStop")

\* C3: after system_trigger_alarm(a) the state is Alarm with alarm code a, the
\* HAL motor enable is off, the HAL spindle is Off and the planner queue is empty.
C3_TriggerAlarmEffects ==
    last.op = "trigger_alarm" =>
        /\ sys.state = "Alarm" /\ sys.alarm = last.arg
        /\ ~hal.stepper_enable
        /\ hal.spindle_dir = "Off" /\ hal.spindle_pwm = 0
        /\ sys.planner = << >>

\* an alarm raised while a block was running with the motors on (the stepper's
\* shadow flag still says enabled) and the spindle had been left running
C3_Witness ==
    /\ last.op = "trigger_alarm" /\ last.arg = "SoftLimit" /\ last.pre_state = "Hold"
    /\ stp.state = "Running" /\ stp.config.motors_enabled
    /\ ~hal.stepper_enable /\ sys.alarm = "SoftLimit"

\* C4: an alarm raised while the stepper runs a block cancels the motion: the
\* next stepper_update emits no pulse and leaves the joint position unchanged.
C4_AlarmCancelsMotion ==
    [][ ( /\ last.op = "trigger_alarm" /\ sys.state = "Alarm"
          /\ stp.state = "Running"
          /\ last'.op = "update" )
        => (hal'.pulses = hal.pulses /\ stp'.position = stp.position) ]_vars

\* the transition table as the specification lists it
ListedTransitions ==
    { <<"Idle", "Running">>, <<"Idle", "Homing">>, <<"Running", "Hold">>,
      <<"Hold", "Running">>, <<"Alarm", "Idle">>, <<"Running", "Idle">>,
      <<"Jog", "Idle">> } \cup { <<old, "Alarm">> : old \in SysStates }

\* C5 as stated: set_state accepts exactly the listed transitions and leaves
\* the state unchanged on any other request.
C5_OnlyListedTransitions ==
    last.op = "set_state" =>
        /\ last.ret <=> (<<last.pre_state, last.arg>> \in ListedTransitions)
        /\ ~last.ret => sys.state = last.pre_state

\* the requests set_state refuses
RefusedTransitions ==
    { <<"Alarm", new>> : new \in SysStates \ {"Idle"} }
    \cup { <<old, "Homing">> : old \in SysStates \ {"Idle"} }
    \cup { <<old, "Running">> : old \in SysStates \ {"Idle", "Hold"} }

\* C5 amended: set_state refuses exactly the requests out of Alarm other than
\* Idle, Homing from a state other than Idle, and Running from a state other
\* than Idle or Hold (false returned, state unchanged); every other request
\* returns true and sets the state.
C5_RefusedTransitions ==
    last.op = "set_state" =>
        /\ last.ret <=> (<<last.pre_state, last.arg>> \notin RefusedTransitions)
        /\ sys.state = IF last.ret THEN last.arg ELSE last.pre_state

\* an accepted request the listed table does not contain, and a refused one
C5_Witness ==
    \/ /\ last.op = "set_state" /\ last.pre_state = "Hold" /\ last.arg = "Idle"
       /\ last.ret /\ sys.state = "Idle"
    \/ /\ last.op = "set_state" /\ last.pre_state = "Jog" /\ last.arg = "Running"
       /\ ~last.ret /\ sys.state = "Jog"

\* C6: outside Idle and Running, process_line never executes the line: the
\* modal state and the supervisor state are the same after the call.
C6_NoExecutionOutsideIdleRunning ==
    [][ (last'.op = "process_line" /\ sys.state \notin {"Idle", "Running"})
        => (sys'.gcode = sys.gcode /\ sys'.state = sys.state) ]_vars

\* a motion line processed in Check: counted, and the position stays at the origin
C6_Witness ==
    /\ last.op = "process_line" /\ last.pre_state = "Check"
    /\ last.arg = <<W("G", 0), W("X", 1)>>
    /\ sys.state = "Check" /\ sys.gcode.position_x = 0
    /\ sys.total_lines_processed = 1

\* what the claim calls an accepted line
LineAccepted(s, line) ==
    \/ s.state \in {"Idle", "Running"} /\ gcode_process_line(s.gcode, line).status = "OK"
    \/ s.state = "Check" /\ gcode_parse_line(line).status = "OK"

\* C7: every process_line call increments exactly one counter by one:
\* lines_processed when the line is accepted, errors otherwise.
C7_OneCounterPerLine ==
    [][ last'.op = "process_line" =>
          IF LineAccepted(sys, last'.arg)
          THEN /\ sys'.total_lines_processed = sys.total_lines_processed + 1
               /\ sys'.total_errors = sys.total_errors
          ELSE /\ sys'.total_errors = sys.total_errors + 1
               /\ sys'.total_lines_processed = sys.total_lines_processed ]_vars

\* C8: a poll reading a limit input asserted (e-stop clear) enters Alarm with
\* code HardLimit when limits are enabled and the state is Running; otherwise
\* it changes neither the state nor the alarm code.
C8_HardLimitOnlyWhenRunning ==
    [][ (last'.op = "poll" /\ AnyLimit(last'.arg) /\ ~last'.arg.estop) =>
          IF sys.limits_enabled /\ sys.state = "Running"
          THEN sys'.state = "Alarm" /\ sys'.alarm = "HardLimit"
          ELSE sys'.state = sys.state /\ sys'.alarm = sys.alarm ]_vars

\* a poll in Running with limit_x asserted that raised HardLimit
C8_Witness ==
    /\ last.op = "poll" /\ last.pre_state = "Running"
    /\ last.arg.limit_x /\ ~last.arg.estop
    /\ sys.state = "Alarm" /\ sys.alarm = "HardLimit"

\* C9 as stated: feed_hold acts only in Running, cycle_start only in Hold;
\* otherwise the supervisor context is unchanged.
C9_HoldOnlyFromRunning ==
    [][ /\ last'.op = "feed_hold" =>
              sys' = IF sys.state = "Running" THEN [sys EXCEPT !.state = "Hold"] ELSE sys
        /\ last'.op = "cycle_start" =>
              sys' = IF sys.state = "Hold" THEN [sys EXCEPT !.state = "Running"] ELSE sys
      ]_vars

\* C9 amended: feed_hold acts only in Running or Jog (to Hold), cycle_start
\* only in Hold (to Running); otherwise the supervisor context is unchanged.
C9_HoldFromRunningOrJog ==
    [][ /\ last'.op = "feed_hold" =>
              sys' = IF sys.state \in {"Running", "Jog"}
                     THEN [sys EXCEPT !.state = "Hold"] ELSE sys
        /\ last'.op = "cycle_start" =>
              sys' = IF sys.state = "Hold" THEN [sys EXCEPT !.state = "Running"] ELSE sys
      ]_vars

\* a feed hold that took effect in Jog
C9_Witness ==
    last.op = "feed_hold" /\ last.pre_state = "Jog" /\ sys.state = "Hold"

\* C10: once lines have put the supervisor in Running and all motion is done
\* (stepper Idle, no pending planner block), the state eventually returns to
\* Idle by itself.
C10_RunningReturnsToIdle ==
    (sys.state = "Running" /\ stp.state = "Idle" /\ sys.planner = << >>)
        ~> (sys.state = "Idle")

\* C11: system_start_homing succeeds only from Idle: in any other state it
\* returns false and leaves the supervisor context unchanged; whenever it
\* returns true the machine position is (0,0,0), homed is set and the state is Idle.
C11_HomingOnlyFromIdle ==
    [][ last'.op = "start_homing" =>
          /\ sys.state # "Idle" => (~last'.ret /\ sys' = sys)
          /\ last'.ret =>
                /\ sys.state = "Idle"
                /\ sys'.machine_x = 0 /\ sys'.machine_y = 0 /\ sys'.machine_z = 0
                /\ sys'.homed /\ sys'.state = "Idle" ]_vars

\* a successful homing after a move to X1 had been executed
C11_Witness ==
    /\ last.op = "start_homing" /\ last.ret /\ last.pre_state = "Idle"
    /\ sys.homed /\ sys.machine_x = 0 /\ sys.gcode.position_x = 1

\* C12: when the kinematics adapter rejects the axis mask, system_start_homing
\* does not home and the supervisor enters Alarm with alarm code HomingFail.
C12_RejectedMaskAlarms ==
    [][ (last'.op = "start_homing" /\ last'.arg = "reject" /\ sys.state = "Idle") =>
          /\ sys'.homed = sys.homed
          /\ sys'.state = "Alarm" /\ sys'.alarm = "HomingFail" ]_vars

(* ========================== framer properties ========================== *)

RtBytes == {CtrlX, Query, Bang, Tilde}

NoRtByte(line) == \A k \in 1 .. Len(line) : line[k] \notin RtBytes

\* the queued lines, oldest first
queue_contents(p) ==
    [k \in 1 .. p.q_count |->
        [line |-> p.q[(p.q_head + k - 1) % PROTOCOL_LINE_QUEUE_DEPTH],
         st |-> p.qst[(p.q_head + k - 1) % PROTOCOL_LINE_QUEUE_DEPTH]]]

LineEvents == SelectSeq(rx.log, LAMBDA e : e.kind = "line")

RtEvents == SelectSeq(rx.log, LAMBDA e : e.kind = "rt")

\* C13: the bytes 0x18, '?', '!' and '~' never appear in a delivered or queued
\* line (nor in the line under assembly), and processing '?', '!' or '~', also
\* inside a semicolon comment, leaves the line under assembly and the queue unchanged.
C13_RealtimeNeverInLines ==
    /\ [](/\ NoRtByte(proto.cur)
          /\ \A k \in 1 .. Len(rx.log) :
                rx.log[k].kind = "line" => NoRtByte(rx.log[k].line)
          /\ \A k \in 1 .. proto.q_count : NoRtByte(queue_contents(proto)[k].line))
    /\ [][ /\ (last'.op = "feed" /\ last'.arg \in {<<Query>>, <<Bang>>, <<Tilde>>})
                => proto' = proto
           /\ (last'.op = "feed" /\ last'.arg = <<Semicolon, Query>>)
                => proto' = protocol_feed_bytes(proto, <<Semicolon>>).p ]_vars

\* the line "AA" delivered from the stream a ! a LF, after the feed-hold callback
C13_Witness ==
    /\ rx.stream = <<LowerA, Bang, LowerA, LF>>
    /\ Len(rx.log) = 2
    /\ rx.log[1].kind = "rt" /\ rx.log[1].cmd = "FEED_HOLD"
    /\ rx.log[2].kind = "line" /\ rx.log[2].line = <<65, 65>>

RtPositions == {k \in 1 .. Len(rx.stream) : rx.stream[k] \in RtBytes}

\* C14: with a real-time callback registered, every real-time byte of the
\* stream causes exactly one callback (also inside comments and after
\* overflow), and callbacks and line deliveries happen in the stream order of
\* the bytes that cause them: a real-time byte, or the LF that ends the line.
C14_CallbacksInStreamOrder ==
    proto.on_rt =>
        /\ Len(RtEvents) = Cardinality(RtPositions)
        /\ \A k \in 1 .. Len(rx.log) :
              LET e == rx.log[k] IN
              /\ e.at \in 1 .. Len(rx.stream)
              /\ k > 1 => rx.log[k - 1].at < e.at
              /\ e.kind = "rt" =>
                    /\ rx.stream[e.at] = CtrlX => e.cmd = "RESET"
                    /\ rx.stream[e.at] = Query => e.cmd = "STATUS_QUERY"
                    /\ rx.stream[e.at] = Bang => e.cmd = "FEED_HOLD"
                    /\ rx.stream[e.at] = Tilde => e.cmd = "CYCLE_START"
                    /\ e.at \in RtPositions
              /\ e.kind = "line" => rx.stream[e.at] = LF

\* a '?' inside an open parenthesis comment answered before its line is delivered
C14_Witness ==
    /\ rx.stream = <<LowerA, LParen, Query, LF>>
    /\ proto.cfg.strip_paren_comments
    /\ Len(rx.log) = 2
    /\ rx.log[1].kind = "rt" /\ rx.log[1].cmd = "STATUS_QUERY" /\ rx.log[1].at = 3
    /\ rx.log[2].kind = "line" /\ rx.log[2].at = 4

\* C15: the callbacks made and the final assembly and queue state depend only
\* on the byte stream: they equal those of one protocol_feed_bytes call with
\* the whole stream.
C15_ChunkingIrrelevant ==
    LET whole == protocol_feed_bytes(
                     protocol_init(proto.cfg, proto.on_line, proto.on_rt), rx.stream)
    IN proto = whole.p /\ rx.log = whole.out

\* index of the last LF in the stream, 0 when there is none
LastLF ==
    LET lfs == {k \in 1 .. Len(rx.stream) : rx.stream[k] = LF}
    IN IF lfs = {} THEN 0 ELSE CHOOSE k \in lfs : \A j \in lfs : j <= k

\* C16: with strip_semicolon_comments on, a ';' discards the bytes up to the
\* next LF only: letters that follow that LF are assembled into the next line.
C16_SemicolonEndsAtLF ==
    LET k == LastLF
        tail == SubSeq(rx.stream, k + 1, Len(rx.stream))
    IN ( /\ proto.cfg.strip_semicolon_comments
         /\ k > 1 /\ rx.stream[k - 1] = Semicolon
         /\ Len(tail) <= PROTOCOL_LINE_MAX
         /\ \A j \in 1 .. Len(tail) : tail[j] = LowerA )
       => proto.cur = [j \in 1 .. Len(tail) |->
                          IF proto.cfg.to_uppercase THEN to_upper(tail[j]) ELSE tail[j]]

\* C17: the line under assembly never exceeds PROTOCOL_LINE_MAX characters,
\* every delivered or queued line is at most that long, and a line is delivered
\* OVERFLOW (untrimmed, full length) exactly when more than PROTOCOL_LINE_MAX
\* bytes reached the append step for it; otherwise its status is OK.
C17_LengthAndOverflow ==
    /\ Len(proto.cur) <= PROTOCOL_LINE_MAX
    /\ proto.cur_overflow <=> proto.seen > PROTOCOL_LINE_MAX
    /\ \A k \in 1 .. Len(rx.log) :
          LET e == rx.log[k] IN
          e.kind = "line" =>
             /\ Len(e.line) <= PROTOCOL_LINE_MAX
             /\ e.st \in {"OK", "OVERFLOW"}
             /\ e.st = "OVERFLOW" <=> e.seen > PROTOCOL_LINE_MAX
             /\ e.st = "OVERFLOW" => Len(e.line) = PROTOCOL_LINE_MAX
    /\ \A k \in 1 .. proto.q_count :
          /\ Len(queue_contents(proto)[k].line) <= PROTOCOL_LINE_MAX
          /\ queue_contents(proto)[k].st \in {"OK", "OVERFLOW"}

\* an overflowed line delivered with its leading blank kept
C17_Witness ==
    /\ Len(rx.log) = 1
    /\ rx.log[1].kind = "line" /\ rx.log[1].st = "OVERFLOW"
    /\ rx.log[1].line[1] = Space /\ rx.log[1].seen = PROTOCOL_LINE_MAX + 1

\* the line an LF completes is ignored: not overflowed, and empty after
\* trimming or a '$' line with allow_dollar_commands off
Ignored(p) ==
    /\ ~p.cur_overflow
    /\ \/ trim_ws(p.cur) = << >>
       \/ ~p.cfg.allow_dollar_commands /\ trim_ws(p.cur)[1] = Dollar

\* C18: with no line callback, completed lines are queued and popped in
\* completion order with their status; the queue never holds more than
\* PROTOCOL_LINE_QUEUE_DEPTH lines; a line completed while the queue is full
\* is dropped and leaves the queue unchanged; ignored lines are never queued.
C18_QueueFifoDropNewest ==
    /\ [](proto.q_count <= PROTOCOL_LINE_QUEUE_DEPTH)
    /\ [][ /\ (last'.op = "feed" /\ ~proto.on_line) =>
                 queue_contents(proto') =
                    IF last'.arg # <<LF>> \/ Ignored(proto)
                       \/ proto.q_count = PROTOCOL_LINE_QUEUE_DEPTH
                    THEN queue_contents(proto)
                    ELSE Append(queue_contents(proto),
                                [line |-> IF proto.cur_overflow THEN proto.cur
                                          ELSE trim_ws(proto.cur),
                                 st |-> IF proto.cur_overflow THEN "OVERFLOW" ELSE "OK"])
           /\ last'.op = "pop" =>
                 IF proto.q_count = 0
                 THEN ~last'.ret /\ rx'.popped = rx.popped /\ proto' = proto
                 ELSE /\ last'.ret
                      /\ rx'.popped = Append(rx.popped, Head(queue_contents(proto)))
                      /\ queue_contents(proto') = Tail(queue_contents(proto)) ]_vars

\* three lines completed with room for two: the third was dropped and the
\* first two came out oldest first
C18_Witness ==
    /\ rx.stream = <<LowerA, LF, Dollar, LF, LowerA, LF>>
    /\ rx.popped = << [line |-> <<65>>, st |-> "OK"], [line |-> <<Dollar>>, st |-> "OK"] >>
    /\ proto.q_count = 0

\* index of the last 0x18 before position j, 0 when there is none
LastCtrlXBefore(j) ==
    LET xs == {k \in 1 .. (j - 1) : rx.stream[k] = CtrlX}
    IN IF xs = {} THEN 0 ELSE CHOOSE k \in xs : \A i \in xs : i <= k

\* C19: byte 0x18 makes the RESET callback and discards the partial line and
\* the queued lines: afterwards protocol_has_line is false, the assembly is
\* empty with both flags clear, and a later LF delivers only bytes received
\* after the 0x18.
C19_ResetDiscards ==
    /\ [](\A k \in 1 .. Len(rx.log) :
             rx.log[k].kind = "line" =>
                Len(rx.log[k].line) <= rx.log[k].at - 1 - LastCtrlXBefore(rx.log[k].at))
    /\ [][ (last'.op = "feed" /\ last'.arg \in {<<CtrlX>>, <<Semicolon, CtrlX>>}) =>
             /\ ~protocol_has_line(proto')
             /\ proto'.cur = << >> /\ ~proto'.cur_overflow /\ ~proto'.in_paren_comment
             /\ proto.on_rt =>
                   rx'.log = Append(rx.log, [kind |-> "rt", cmd |-> "RESET",
                                             at |-> Len(rx'.stream)]) ]_vars

\* a queued line and a partial line both discarded by 0x18
C19_Witness ==
    /\ rx.stream = <<LowerA, LF, LowerA, CtrlX>>
    /\ ~proto.on_line /\ proto.on_rt
    /\ proto.q_count = 0 /\ proto.cur = << >>
    /\ Len(rx.log) = 1 /\ rx.log[1].cmd = "RESET"

(* ========================= stepper properties ========================== *)

BlockLoaded == stp.state \in {"Running", "Hold"}

BlockDone == stp.state = "Idle" /\ stp.step_count = stp.target_steps

\* steps taken never exceed the target, and every pulse is counted: an update
\* emits exactly the pulses it counts and a load emits none
StepAccounting ==
    /\ [](\A axis \in Axes : stp.step_count[axis] <= stp.target_steps[axis])
    /\ [][ /\ last'.op = "update" =>
                 \A axis \in Axes :
                    hal'.pulses[axis] - hal.pulses[axis]
                       = stp'.step_count[axis] - stp.step_count[axis]
           /\ (last'.op = "load_block" /\ last'.ret) =>
                 /\ hal'.pulses = hal.pulses
                 /\ stp'.step_count = ZeroAxes
                 /\ stp'.target_steps =
                       [axis \in Axes |-> IF axis = HAL_AXIS_X
                                          THEN last'.arg[1].step_event_count ELSE 0]
           /\ last'.op \in {"hold", "resume"} =>
                 /\ hal'.pulses = hal.pulses
                 /\ stp'.step_count = stp.step_count
                 /\ stp'.target_steps = stp.target_steps ]_vars

\* C20 as stated: with stepper_update called and time advancing, hold and
\* resume interleaving arbitrarily (every hold resumed), a loaded block
\* eventually completes with the stepper Idle and the pulses emitted since the
\* load equal to target_steps; steps taken never exceed the target.
C20_BlockCompletes ==
    StepAccounting /\ (BlockLoaded ~> BlockDone)

\* C20 amended: the same, provided the stepper is put on hold only finitely often.
C20_BlockCompletesUnlessHeldForever ==
    StepAccounting /\ (([]<><<Do_hold>>_stp) \/ (BlockLoaded ~> BlockDone))

\* a two-step block completed: two pulses on X, none elsewhere, stepper Idle
C20_Witness ==
    /\ last.op = "update" /\ last.pre_state = "Running" /\ stp.state = "Idle"
    /\ stp.target_steps[HAL_AXIS_X] = 2 /\ stp.step_count = stp.target_steps
    /\ hal.pulses = [axis \in Axes |-> IF axis = HAL_AXIS_X THEN 2 ELSE 0]


\* a step that is a stepper_load_block call (a clock tick leaves `last` and stp alone)
LoadStep == last'.op = "load_block" /\ (last' # last \/ stp' # stp)

\* C21: stepper_load_block returns true exactly when the stepper is Idle and the
\* block is non-null and passes planner_block_validate; every refused call
\* leaves the StepperContext unchanged; after a successful call the phase is
\* Running, step_taken is zero on every axis and the block is the current block.
C21_LoadOnlyWhenIdleAndValid ==
    [][ LoadStep =>
          LET block == last'.arg
              ok == /\ stp.state = "Idle" /\ block # << >>
                    /\ planner_block_validate(block[1])
          IN /\ last'.ret = ok
             /\ ~ok => stp' = stp
             /\ ok => /\ stp'.state = "Running"
                      /\ stp'.step_count = ZeroAxes
                      /\ stp'.current_block = block ]_vars

\* a valid block refused because the stepper is held, part of the way
\* through another block
C21_Witness ==
    /\ last.op = "load_block" /\ ~last.ret /\ last.pre_state = "Hold"
    /\ last.arg # << >> /\ planner_block_validate(last.arg[1])
    /\ stp.state = "Hold" /\ stp.step_count[HAL_AXIS_X] = 1

\* C22: whenever stepper_load_block returns true the HAL motor-enable output is
\* on afterwards, whatever stepper_init, stepper_set_config,
\* stepper_enable_motors, stepper_reset calls and supervisor alarms came before.
C22_MotorsOnAfterLoad ==
    [][ (LoadStep /\ last'.ret) => hal'.stepper_enable ]_vars

\* n uninterrupted runs of stepper_update
RECURSIVE updates(_, _, _)
updates(c, h, n) ==
    IF n = 0 THEN <<c, h>>
    ELSE LET r == stepper_update(c, h) IN updates(r.stp, r.hal, n - 1)

\* what the serial orders of one call and the interrupts taken during it produce
SerialOutcomes(m) ==
    { LET before == updates(m.pre[1], m.pre[2], n)
          r == main_call(m.op, before[1], before[2], m.block)
      IN updates(r.stp, r.hal, m.isr - n) : n \in 0..m.isr }

\* C23: with stepper_update pre-empting stepper_load_block, stepper_hold,
\* stepper_resume and stepper_stop between any two statements, every call
\* returns with the StepperContext and the HAL outputs in a state that some
\* serial order of the call and the interrupts taken during it also produces.
C23_IsrSerializable ==
    [][ (main.pc > 0 /\ main'.pc = 0) => <<stp', hal'>> \in SerialOutcomes(main) ]_vars

\* a step that is a call of the stepper operation `op`
StepOf(op) == last'.op = op /\ (last' # last \/ stp' # stp)

\* C24: stepper_hold changes the phase only from Running (to Hold) and
\* stepper_resume only from Hold (to Running, with last_step_time_us set to the
\* current time); in every other phase they change nothing; a stepper_update
\* made in Hold emits no pulse and leaves step counters, joint position and
\* phase as they were.
C24_HoldResumeFrame ==
    [][ /\ StepOf("hold") =>
              /\ stp' = IF stp.state = "Running" THEN [stp EXCEPT !.state = "Hold"] ELSE stp
              /\ hal' = hal
        /\ StepOf("resume") =>
              /\ stp' = IF stp.state = "Hold"
                        THEN [stp EXCEPT !.state = "Running",
                                         !.last_step_time_us = hal_micros(hal)]
                        ELSE stp
              /\ hal' = hal
        /\ (StepOf("update") /\ stp.state = "Hold") =>
              /\ hal'.pulses = hal.pulses
              /\ stp'.step_count = stp.step_count
              /\ stp'.position = stp.position
              /\ stp'.state = "Hold" ]_vars

\* a block held after its first step and resumed when the clock reads 4 ms or more
C24_Witness ==
    /\ last.op = "resume" /\ last.pre_state = "Hold"
    /\ stp.state = "Running" /\ stp.step_count[HAL_AXIS_X] = 1
    /\ stp.last_step_time_us = hal_micros(hal) /\ hal_micros(hal) >= 4000

\* C25: whenever the stepper is Idle with idle_disable set and the motors
\* enabled, and stays so, the motors are eventually disabled through the HAL
\* (by a stepper_update call made once idle_timeout_ms have passed); stated for
\* the behaviours in which stepper_update keeps being called on the idle stepper.
C25_IdleMotorsEventuallyOff ==
    []<>(last.op = "update" /\ last.pre_state = "Idle") =>
        ((stp.state = "Idle" /\ stp.config.idle_disable
            /\ stp.config.motors_enabled /\ hal.stepper_enable)
          ~> (stp.state # "Idle" \/ ~stp.config.idle_disable \/ ~hal.stepper_enable))

(* ------------------------ interpreter properties ----------------------- *)

\* the words of a line as the text gives them
HasWord(line, l) == \E i \in 1..Len(line) : line[i].l = l

WordVal(line, l) ==
    line[CHOOSE i \in 1..Len(line) :
            line[i].l = l /\ \A j \in (i + 1)..Len(line) : line[j].l # l].v

\* the line without its M and S words, and its M and S words alone
GPart(line) == SelectSeq(line, LAMBDA w : w.l \notin {"M", "S"})

MSPart(line) == SelectSeq(line, LAMBDA w : w.l \in {"M", "S"})

MotionLine(line) == HasWord(line, "G") /\ WordVal(line, "G") \in {0, 1, 2, 3}

\* C26: within one block the G-word is applied before the M-word and the M-word
\* before a standalone S, wherever the words stand in the text: the outcome is
\* that of the line's G part followed by its M/S part; when the G part fails the
\* block returns its status and spindle state, spindle speed and the
\* program-end latch keep their values; an OK block with a motion G-word and
\* M30 ends at position (0,0).
C26_GThenMThenS ==
    [][ last'.op = "gcode_process_line" =>
          LET line == last'.arg
              gc == sys.gcode
          IN \A full \in {gcode_process_line(gc, line)},
                rg \in {gcode_process_line(gc, GPart(line))} :
                /\ last'.ret = (full.status = "OK")
                /\ rg.status # "OK" =>
                      /\ full.status = rg.status
                      /\ sys'.gcode = rg.gc
                      /\ sys'.gcode.spindle_state = gc.spindle_state
                      /\ sys'.gcode.spindle_speed = gc.spindle_speed
                      /\ sys'.gcode.program_complete = gc.program_complete
                /\ rg.status = "OK" =>
                      \A rms \in {gcode_process_line(rg.gc, MSPart(line))} :
                         full.status = rms.status /\ sys'.gcode = rms.gc
                /\ (MotionLine(line) /\ HasWord(line, "M") /\ WordVal(line, "M") = 30
                       /\ last'.ret) =>
                      (sys'.gcode.position_x = 0 /\ sys'.gcode.position_y = 0) ]_vars

\* "M30 X5 G0" executed away from the origin in relative mode: the move is made
\* first and the rewind last
C26_Witness ==
    /\ last.op = "gcode_process_line" /\ last.ret
    /\ last.arg = <<W("M", 30), W("X", 5), W("G", 0)>>
    /\ sys.gcode.position_x = 0 /\ sys.gcode.position_y = 0
    /\ sys.gcode.motion_mode = "Rapid" /\ sys.gcode.program_complete
    /\ ~sys.gcode.absolute_mode

\* where a motion block leaves one axis: the word itself in absolute mode, the
\* old coordinate plus the word in relative mode, the old coordinate without a word
AxisAfter(gc, line, l, old) ==
    IF ~HasWord(line, l) THEN old
    ELSE IF gc.coord_mode = "Relative" THEN old + WordVal(line, l)
    ELSE WordVal(line, l)

\* the coordinate mode changes only by G90, G91 or a reset, and motion blocks
\* that return OK (those in `lines`) move each axis by the mode's rule
CoordModeRule(lines) ==
    /\ last'.op = "gcode_process_line" =>
          LET line == last'.arg
              gc == sys.gcode
          IN /\ (sys'.gcode.coord_mode # gc.coord_mode) =>
                    /\ HasWord(line, "G") /\ last'.ret
                    /\ sys'.gcode.coord_mode =
                          (IF WordVal(line, "G") = 91 THEN "Relative" ELSE "Absolute")
                    /\ WordVal(line, "G") \in {90, 91}
             /\ (sys'.gcode.coord_mode = "Relative") = ~sys'.gcode.absolute_mode
             /\ (MotionLine(line) /\ last'.ret /\ line \in lines) =>
                    /\ sys'.gcode.position_x = AxisAfter(gc, line, "X", gc.position_x)
                    /\ sys'.gcode.position_y = AxisAfter(gc, line, "Y", gc.position_y)
    /\ last'.op = "gcode_reset" => sys'.gcode.coord_mode = "Absolute"

\* C27 as stated: coord_mode is sticky, and every successful motion block adds
\* its X/Y words to the position in relative mode and sets the position to its
\* words in absolute mode (an absent word leaves the axis unchanged).
C27_CoordModeSticky == [][CoordModeRule(GcodeLines)]_vars

\* C27, amended: the same for every successful motion block that carries no
\* M30 (M30 in the block rewinds the position to the origin after the move).
C27_CoordModeStickyNoM30 ==
    [][CoordModeRule({line \in GcodeLines :
                        ~(HasWord(line, "M") /\ WordVal(line, "M") = 30)})]_vars

\* absolute (10,20), then G91, then the relative move X5 Y10 ends at (15,30)
C27_Witness ==
    /\ last.op = "gcode_process_line" /\ last.ret
    /\ last.arg = <<W("Y", 10), W("X", 5), W("G", 0)>>
    /\ sys.gcode.coord_mode = "Relative"
    /\ sys.gcode.position_x = 15 /\ sys.gcode.position_y = 30

C29_SpindleCommands ==
    [][ (last'.op = "gcode_process_line" /\ HasWord(last'.arg, "M")) =>
          LET line == last'.arg
              gc == sys.gcode
              m == WordVal(line, "M")
          IN /\ (m \in {3, 4, 5} /\ last'.ret) =>
                   /\ sys'.gcode.spindle_state =
                         (CASE m = 3 -> "CW" [] m = 4 -> "CCW" [] m = 5 -> "Off")
                   /\ HasWord(line, "S") =>
                         sys'.gcode.spindle_speed = WordVal(line, "S")
             /\ (m \notin {2, 3, 4, 5, 30} /\ ~HasWord(line, "G")) =>
                   /\ gcode_process_line(gc, line).status = "UnknownCmd"
                   /\ sys'.gcode.spindle_state = gc.spindle_state
                   /\ sys'.gcode.spindle_speed = gc.spindle_speed ]_vars

(* ----------------------------- arc properties -------------------------- *)

\* whenever the generator returned true it called the handler between once and
\* MaxSegments times and the last call received the end point, and the detailed
\* run agrees with execute_arc; OK arc blocks in `lines` end on their target
ArcRule(lines) ==
    last'.op = "arc_line" =>
       LET line == last'.arg.line
           arc == last'.arg.arc
           gc == sys.gcode
           tx == AxisAfter(gc, line, "X", gc.position_x)
           ty == AxisAfter(gc, line, "Y", gc.position_y)
       IN /\ arc.ret =>
                /\ Len(arc.calls) \in 1..MaxSegments
                /\ arc.calls[Len(arc.calls)] = <<tx, ty>>
          /\ \A r \in {gcode_process_line(gc, line)} :
                (last'.ret = (r.status = "OK")) /\ sys'.gcode = r.gc
          /\ last'.ret => arc.ret
          /\ (last'.ret /\ line \in lines) =>
                (sys'.gcode.position_x = tx /\ sys'.gcode.position_y = ty)

\* C30 as stated: when arc_generate_ij returns true it has invoked the callback
\* at least once and at most the clamp, the last invocation received exactly
\* (end_x, end_y), and after every OK G02/G03 block the position equals the
\* block's computed target.
C30_ArcEndsOnTarget == [][ArcRule(ArcLines)]_vars

\* C30, amended: the same, the final position being claimed for the OK G02/G03
\* blocks that carry no M30.
C30_ArcEndsOnTargetNoM30 ==
    [][ArcRule({line \in ArcLines :
                  ~(HasWord(line, "M") /\ WordVal(line, "M") = 30)})]_vars

\* a relative G02 from (10,20) generated as two segments: a computed point,
\* then the end point (20,20)
C30_Witness ==
    /\ last.op = "arc_line" /\ last.ret
    /\ last.arg.line = <<W("G", 2), W("X", 10), W("I", 5), W("F", 200)>>
    /\ last.arg.arc.calls = << <<7, 3>>, <<20, 20>> >>
    /\ sys.gcode.position_x = 20 /\ sys.gcode.position_y = 20

(* ---------------------------- planner properties ----------------------- *)

\* the float comparison a >= b
FAtLeast(a, b) == a # NaN /\ b # NaN /\ a >= b

\* C31: planner_block_validate returns valid exactly when entry_speed,
\* nominal_speed, exit_speed, acceleration, max_entry_speed and millimeters are
\* each >= 0, max_entry_speed > 0 implies entry_speed <= max_entry_speed, and
\* nominal_speed > 0 implies entry_speed <= nominal_speed and
\* exit_speed <= nominal_speed.
C31_ValidateExactly ==
    (last.op = "planner_block_validate" /\ last.arg # << >>) =>
       LET b == last.arg[1] IN
       last.ret =
          (/\ FAtLeast(b.entry_speed, 0) /\ FAtLeast(b.nominal_speed, 0)
           /\ FAtLeast(b.exit_speed, 0) /\ FAtLeast(b.acceleration, 0)
           /\ FAtLeast(b.max_entry_speed, 0) /\ FAtLeast(b.millimeters, 0)
           /\ FGreater(b.max_entry_speed, 0) =>
                 FAtLeast(b.max_entry_speed, b.entry_speed)
           /\ FGreater(b.nominal_speed, 0) =>
                 (/\ FAtLeast(b.nominal_speed, b.entry_speed)
                  /\ FAtLeast(b.nominal_speed, b.exit_speed)))

\* C32: a successful linear move (G00/G01 returning OK) processed by the
\* supervisor enqueues a PlannerBlock per waypoint before the position is
\* updated, so after such a move to a different target the supervisor's
\* planner queue has received at least one block.
C32_MoveEnqueuesBlocks ==
    [][ (/\ last'.op = "process_line"
         /\ sys.state \in {"Idle", "Running"}
         /\ MotionLine(last'.arg) /\ WordVal(last'.arg, "G") \in {0, 1}
         /\ sys'.total_lines_processed = sys.total_lines_processed + 1
         /\ sys'.gcode.position_x # sys.gcode.position_x)
        => Len(sys'.planner) > Len(sys.planner) ]_vars

(* ------------------------- stepper tick properties -------------------- *)

\* the stepper_update call being taken finds the stepper Running with a step due
DueTick ==
    /\ StepOf("update")
    /\ stp.state = "Running"
    /\ U32(hal_micros(hal) - stp.last_step_time_us) >= stp.step_interval_us

\* C33: the stepper finishes a block on the stepper_update call that emits its
\* final pulse: when after the per-step loop of a due tick every axis has
\* step_count = target_steps, that call clears the current block and sets
\* the state to Idle.
C33_FinishOnFinalPulse ==
    [][ (DueTick /\ \A axis \in Axes : stp'.step_count[axis] = stp'.target_steps[axis])
        => (stp'.state = "Idle" /\ stp'.current_block = << >>) ]_vars

\* +1 or -1: the way a pulse on `axis` moves it under the loaded block
PulseSign(c, axis) ==
    IF dir_bit(c.current_block[1].direction_bits, axis) THEN 1 ELSE 0 - 1

\* C34: on a constructed stepper each emitted pulse on an axis changes that
\* axis's joint position by +1 when the block's direction bit is 1 and by -1
\* when it is 0, and nothing else changes the joint position (stepper_init,
\* which constructs the context anew, is not a step of its operation);
\* position minus signed step_count therefore stays at the position the
\* block was loaded at (step_count is 0 at load) for as long as the block is
\* executed, a block completes with step_count n on the dominant axis and 0
\* elsewhere, and so its position differs from the one at load by +n or -n,
\* the other axes being unchanged, whatever hold and resume calls come in
\* between.
C34_PulsesMovePosition ==
    [][ ~StepOf("stepper_init") =>
        \A axis \in Axes :
          /\ hal'.pulses[axis] = hal.pulses[axis]
                => stp'.position[axis] = stp.position[axis]
          /\ hal'.pulses[axis] # hal.pulses[axis]
                => /\ stp.current_block # << >>
                   /\ hal'.pulses[axis] = hal.pulses[axis] + 1
                   /\ stp'.position[axis] = stp.position[axis] + PulseSign(stp, axis)
          /\ (stp.current_block # << >> /\ ~StepOf("stepper_reset"))
                => stp'.position[axis] - PulseSign(stp, axis) * stp'.step_count[axis]
                   = stp.position[axis] - PulseSign(stp, axis) * stp.step_count[axis]
          /\ (StepOf("update") /\ stp.state = "Running" /\ stp'.state = "Idle")
                => stp'.step_count[axis] =
                     (IF axis = HAL_AXIS_X
                      THEN stp.current_block[1].step_event_count ELSE 0) ]_vars

\* a two-step forward block has completed: two pulses, position +2
C34_Witness ==
    /\ last.op = "update" /\ last.pre_state = "Running" /\ stp.state = "Idle"
    /\ hal.pulses[HAL_AXIS_X] = 2
    /\ stp.position[HAL_AXIS_X] = 2

(* ------------------------ supervisor alarm code ----------------------- *)

\* C35: in every reachable supervisor state alarm_code is other than None
\* exactly when the state is Alarm: entering Alarm records a code, and
\* leaving Alarm for Idle (system_clear_alarm, system_set_state(Idle),
\* system_reset) resets the code to None.
C35_AlarmCodeIffAlarm == (sys.alarm # "None") <=> (sys.state = "Alarm")

(* ----------------------- block execution properties ------------------- *)

\* C36: whenever gcode_execute_block returns a status other than OK, the
\* ModalState is exactly what it was before the call.
C36_FailedBlockLeavesState ==
    [][ (/\ last'.op = "gcode_process_line"
         /\ gcode_parse_line(last'.arg).status = "OK"
         /\ gcode_execute_block(sys.gcode, gcode_parse_line(last'.arg).block).status # "OK")
        => sys'.gcode = sys.gcode ]_vars

\* the line carries an X or a Y word
HasCoords(line) == HasWord(line, "X") \/ HasWord(line, "Y")

\* the line ends the program with M30
HasM30(line) == HasWord(line, "M") /\ WordVal(line, "M") = 30

RECURSIVE DropEarlier(_, _)
DropEarlier(line, l) ==
    IF line = << >> THEN << >>
    ELSE IF Head(line).l = l /\ HasWord(Tail(line), l) THEN DropEarlier(Tail(line), l)
    ELSE <<Head(line)>> \o DropEarlier(Tail(line), l)

\* C38: a parsed block carries at most one G-number and one M-number: when a
\* line has several G words (or several M words) only the last one is
\* recorded and executed, so the line does what it would do without the
\* earlier ones; for 'G91 G00 X5' coord_mode is not changed by the G91.
C38_LastGAndMWordOnly ==
    [][ last'.op = "gcode_process_line"
        => /\ \A p \in {gcode_parse_line(last'.arg)} :
                p.status = "OK" =>
                   /\ p.block.has_g = HasWord(last'.arg, "G")
                   /\ p.block.has_g => p.block.g_code = WordVal(last'.arg, "G")
                   /\ p.block.has_m = HasWord(last'.arg, "M")
                   /\ p.block.has_m => p.block.m_code = WordVal(last'.arg, "M")
           /\ \A r \in {gcode_process_line(sys.gcode,
                            DropEarlier(DropEarlier(last'.arg, "G"), "M"))} :
                /\ sys'.gcode = r.gc
                /\ last'.ret = (r.status = "OK")
           /\ last'.arg = <<W("G", 91), W("G", 0), W("X", 5)>>
                => sys'.gcode.coord_mode = sys.gcode.coord_mode ]_vars

\* 'G91 G00 X5' has moved the tool from X = 10 to the absolute X = 5
C38_Witness ==
    /\ last.op = "gcode_process_line" /\ last.ret
    /\ last.arg = <<W("G", 91), W("G", 0), W("X", 5)>>
    /\ sys.gcode.coord_mode = "Absolute"
    /\ sys.gcode.position_x = 5 /\ sys.gcode.position_y = 20

(* ----------------------- machine position and poll -------------------- *)

\* C39: system_poll changes machine X/Y only to reflect executed motion: a
\* system_poll that directly follows a successful system_start_homing or a
\* system_reset (no line executed in between) leaves machine_x and machine_y
\* as that operation left them.
C39_PollKeepsHomeDatum ==
    [][ (/\ last'.op = "poll"
         /\ last.op \in {"start_homing", "reset"} /\ last.ret)
        => (sys'.machine_x = sys.machine_x /\ sys'.machine_y = sys.machine_y) ]_vars

(* ------------------------- clock wraparound --------------------------- *)

====
